---- MODULE Spec2Model ----
(***************************************************************************)
(* Model of the staking program (src/programs/staking/src/lib.rs) and the  *)
(* lending program (src/programs/lending/src/lib.rs).                      *)
(*                                                                         *)
(* Every handler deserializes the pool and position records into local     *)
(* copies, works on the copies and serializes them back as its last two    *)
(* statements; an early `return Err(..)` or a `?` leaves the accounts as   *)
(* they were.  A handler is therefore an operator from the persisted       *)
(* records and the call's inputs to a result record                        *)
(*     [err, pool, info, net, fee]                                         *)
(* where pool and info are the handler's local copies at the moment it     *)
(* returns, also when it returns an error; the action built on it writes   *)
(* them back only when err is "Ok".  net and fee are the amounts handed to *)
(* spl_token::instruction::transfer for the caller and for the fee wallet. *)
(*                                                                         *)
(* A rejected call changes no account, so what follows it is what follows  *)
(* the state before it: a behaviour is followed up to its first rejected   *)
(* call (lastOp.err = "Ok" guards every step).                             *)
(*                                                                         *)
(* u64 and i64 fields are integers.  Values that exceed 31 bits in the     *)
(* code (the u128 accumulator, the products formed before a division) are  *)
(* little-endian sequences of base-10000 limbs, so that the scale 10^12,   *)
(* the divisor 365*24*60*60*10000 and the limits 2^64-1 and 2^128-1 keep   *)
(* their values.                                                           *)
(***************************************************************************)
EXTENDS Integers, Sequences, FiniteSets, TLC

VARIABLES
    program,      \* which deployed program the behaviour exercises
    now,          \* Clock::get()?.unix_timestamp
    stakePool,    \* persisted StakePool record
    stakeInfo,    \* persisted UserStakeInfo per position account (NoData: data_len() = 0)
    lendingPool,  \* persisted LendingPool record
    lendingInfo,  \* persisted UserLendingInfo per position account
    lastOp,       \* the last call: inputs, result, records before it
    emitted,      \* history: reward_rate * seconds that passed while total_staked > 0
    calls,        \* history: number of calls that returned Ok
    initFirst,    \* history: Initialize was the first call that returned Ok
    paidOut,      \* history: per position, gross reward handed to transfers by ClaimReward
    rewound,      \* history: the clock has stepped backwards
    ratioCheck,   \* one evaluation of check_collateral_ratio: its inputs and result
    splitCheck,   \* one interval settled once and settled in two parts: inputs and credits
    campaign,     \* persisted AirdropCampaign record of the campaign account
    whitelist,    \* persisted WhitelistEntry per whitelist account
    claimsMade,   \* history: accepted ClaimAirdrops per whitelist account and wallet
    launchpad,    \* persisted LaunchpadConfig record of the launchpad account
    participants, \* persisted Participant per participant info account
    created       \* history: accepted CreateCampaign / CreateLaunchpad calls

\* the records of the airdrop and of the launchpad program
saleVars == <<campaign, whitelist, claimsMade, launchpad, participants, created>>

vars == <<saleVars, splitCheck, ratioCheck, program, now, stakePool, stakeInfo, lendingPool, lendingInfo, lastOp, emitted, paidOut, calls, initFirst, rewound>>

-----------------------------------------------------------------------------
(* Wide unsigned integers *)

Base == 10000

RECURSIVE BigNorm(_)
BigNorm(a) ==
    IF a = <<>> THEN a
    ELSE IF a[Len(a)] = 0 THEN BigNorm(SubSeq(a, 1, Len(a) - 1)) ELSE a

RECURSIVE BigOf(_)
BigOf(n) == IF n = 0 THEN <<>> ELSE <<n % Base>> \o BigOf(n \div Base)

RECURSIVE BigToNat(_)
BigToNat(a) == IF a = <<>> THEN 0 ELSE a[1] + Base * BigToNat(Tail(a))

Limb(a, i) == IF i <= Len(a) THEN a[i] ELSE 0

RECURSIVE BigAddC(_, _, _)
BigAddC(a, b, c) ==
    IF a = <<>> /\ b = <<>> THEN (IF c = 0 THEN <<>> ELSE <<c>>)
    ELSE LET s == Limb(a, 1) + Limb(b, 1) + c
         IN  <<s % Base>> \o BigAddC(IF a = <<>> THEN a ELSE Tail(a),
                                     IF b = <<>> THEN b ELSE Tail(b), s \div Base)

BigAdd(a, b) == BigNorm(BigAddC(a, b, 0))

RECURSIVE BigLeqFrom(_, _, _)
BigLeqFrom(a, b, i) ==
    IF i = 0 THEN TRUE
    ELSE IF a[i] # b[i] THEN a[i] < b[i] ELSE BigLeqFrom(a, b, i - 1)

\* a <= b, both normalised
BigLeq(a, b) ==
    IF Len(a) # Len(b) THEN Len(a) < Len(b) ELSE BigLeqFrom(a, b, Len(a))

RECURSIVE BigSubB(_, _, _)
BigSubB(a, b, c) ==
    IF a = <<>> THEN <<>>
    ELSE LET d == a[1] - Limb(b, 1) - c
         IN  <<IF d < 0 THEN d + Base ELSE d>>
                 \o BigSubB(Tail(a), IF b = <<>> THEN b ELSE Tail(b), IF d < 0 THEN 1 ELSE 0)

\* a - b for b <= a
BigSub(a, b) == BigNorm(BigSubB(a, b, 0))

RECURSIVE BigMulLimbC(_, _, _)
BigMulLimbC(a, k, c) ==
    IF a = <<>> THEN (IF c = 0 THEN <<>> ELSE <<c>>)
    ELSE LET p == a[1] * k + c
         IN  <<p % Base>> \o BigMulLimbC(Tail(a), k, p \div Base)

RECURSIVE BigMul(_, _)
BigMul(a, b) ==
    IF b = <<>> THEN <<>>
    ELSE BigAdd(BigNorm(BigMulLimbC(a, b[1], 0)),
                BigNorm(<<0>> \o BigMul(a, Tail(b))))

RECURSIVE BigDivFrom(_, _, _, _)
BigDivFrom(a, d, i, r) ==
    IF i = 0 THEN <<>>
    ELSE LET x == r * Base + a[i]
         IN  BigDivFrom(a, d, i - 1, x % d) \o <<x \div d>>

\* floor(a / d) for a divisor d of at most 200000
BigDivSmall(a, d) == BigNorm(BigDivFrom(a, d, Len(a), 0))

\* the largest q in lo .. hi with q * b <= r
RECURSIVE QuotDigit(_, _, _, _)
QuotDigit(r, b, lo, hi) ==
    IF lo = hi THEN lo
    ELSE IF BigLeq(BigMul(BigOf((lo + hi + 1) \div 2), b), r)
    THEN QuotDigit(r, b, (lo + hi + 1) \div 2, hi)
    ELSE QuotDigit(r, b, lo, (lo + hi + 1) \div 2 - 1)

RECURSIVE BigDivBigFrom(_, _, _, _)
BigDivBigFrom(a, b, i, r) ==
    IF i = 0 THEN <<>>
    ELSE LET x == BigNorm(<<a[i]>> \o r)
             q == QuotDigit(x, b, 0, Base - 1)
         IN  BigDivBigFrom(a, b, i - 1, BigSub(x, BigMul(BigOf(q), b))) \o <<q>>

\* floor(a / b), long division by a wide b above zero
BigDiv(a, b) == BigNorm(BigDivBigFrom(a, b, Len(a), <<>>))

\* floor(a / d) for a divisor d above zero
BigDivNat(a, d) == IF d <= 200000 THEN BigDivSmall(a, d) ELSE BigDiv(a, BigOf(d))

U64_MAX == <<1615, 955, 737, 6744, 1844>>
U128_MAX == <<1455, 6821, 4317, 4607, 6337, 4634, 938, 6692, 2823, 340>>
TWO_64 == BigAdd(U64_MAX, <<1>>)

\* floor(a / 2^64), 2^64 = 65536^4
BigShr64(a) == BigDivSmall(BigDivSmall(BigDivSmall(BigDivSmall(a, 65536), 65536), 65536), 65536)

\* `x as u64` of a u128 x: the low 64 bits
AsU64(a) == IF BigLeq(a, U64_MAX) THEN a ELSE BigSub(a, BigMul(BigShr64(a), TWO_64))

\* `x as u64` of an i64 x: two's complement
I64AsU64(x) == IF x >= 0 THEN BigOf(x) ELSE BigSub(TWO_64, BigOf(0 - x))

-----------------------------------------------------------------------------
(* Accounts and inputs *)

Accounts == {"a1", "a2"}

\* an account with no data: data_len() = 0
NoData == [data_len |-> 0]

\* the whitelist accounts of the airdrop program
WhitelistAccounts == {"w1", "w2"}

\* the account names are interchangeable: of the accounts that hold no position yet,
\* the next position is opened in a1 before a2
OpensInOrder(info, acct) == acct = "a2" => info["a1"] # NoData
FEE_WALLET == "6zkf4DviZZkpWVEh53MrcQV6vGXGpESnNXgAvU6KpBUH"
FeeWallets == {FEE_WALLET, "other"}

\* the clock values of a behaviour
StakingTimes == {0, 10, 604800}
LendingTimes == {0, 604800}

StakeAmounts == {700, 1000}
MaxTotalStaked == 1700

\* rewards_earned is followed up to this value
MaxReward == 70000000

\* a behaviour holds at most this many successful calls
MaxCalls == 4

Ok == "Ok"

\* a result the model does not follow (a value beyond MaxReward)
OutOfRange == "OutOfRange"
Result(e, p, i, n, f) == [err |-> e, pool |-> p, info |-> i, net |-> n, fee |-> f]

-----------------------------------------------------------------------------
(* Staking *)

STAKING_SERVICE_FEE_BPS == 30

ZeroStakePool ==
    [is_initialized |-> FALSE, total_staked |-> 0, reward_rate |-> 0,
     last_update_time |-> 0, reward_per_token_stored |-> <<>>]

NewStakeInfo(owner, t) ==
    [owner |-> owner, stake_amount |-> 0, rewards_earned |-> 0,
     reward_per_token_paid |-> <<>>, start_time |-> t, lock_period |-> 7 * 24 * 60 * 60]

\* 1_000_000_000_000u128
REWARD_SCALE == BigMul(BigOf(1000000), BigOf(1000000))


\* the settlement dividing by 10^8, not by the scale the accumulator was multiplied with
DivRewardScale_1e8(a) == BigDivSmall(BigDivSmall(a, 10000), 10000)

\* floor(a / 1_000_000_000_000), 10^12 = 10000^3
DivRewardScale(a) == BigDivSmall(BigDivSmall(BigDivSmall(a, 10000), 10000), 10000)



\* update_pool starting the accumulator over when nothing is staked
update_pool_restart(pool, current_time) ==
    IF pool.total_staked = 0
    THEN [err |-> Ok, pool |-> [pool EXCEPT !.last_update_time = current_time,
                                            !.reward_per_token_stored = <<>>]]
    ELSE LET time_elapsed == current_time - pool.last_update_time
             reward == BigMul(I64AsU64(time_elapsed), BigOf(pool.reward_rate))
             scaled == BigMul(reward, REWARD_SCALE)
             reward_per_token == BigDivNat(scaled, pool.total_staked)
             stored == BigAdd(pool.reward_per_token_stored, reward_per_token)
         IN  IF time_elapsed > 0
             THEN IF ~BigLeq(reward, U64_MAX) \/ ~BigLeq(scaled, U128_MAX)
                         \/ ~BigLeq(stored, U128_MAX)
                  THEN [err |-> "Overflow", pool |-> pool]
                  ELSE [err |-> Ok,
                        pool |-> [pool EXCEPT !.reward_per_token_stored = stored,
                                              !.last_update_time = current_time]]
             ELSE [err |-> Ok, pool |-> pool]


\* update_pool leaving last_update_time where it was when nothing is staked
update_pool_keep_time(pool, current_time) ==
    IF pool.total_staked = 0
    THEN [err |-> Ok, pool |-> pool]
    ELSE LET time_elapsed == current_time - pool.last_update_time
             reward == BigMul(I64AsU64(time_elapsed), BigOf(pool.reward_rate))
             scaled == BigMul(reward, REWARD_SCALE)
             reward_per_token == BigDivNat(scaled, pool.total_staked)
             stored == BigAdd(pool.reward_per_token_stored, reward_per_token)
         IN  IF time_elapsed > 0
             THEN IF ~BigLeq(reward, U64_MAX) \/ ~BigLeq(scaled, U128_MAX)
                         \/ ~BigLeq(stored, U128_MAX)
                  THEN [err |-> "Overflow", pool |-> pool]
                  ELSE [err |-> Ok,
                        pool |-> [pool EXCEPT !.reward_per_token_stored = stored,
                                              !.last_update_time = current_time]]
             ELSE [err |-> Ok, pool |-> pool]

\* update_pool: the sync of the accumulator to current_time
update_pool(pool, current_time) ==
    IF pool.total_staked = 0
    THEN [err |-> Ok, pool |-> [pool EXCEPT !.last_update_time = current_time]]
    ELSE LET time_elapsed == current_time - pool.last_update_time
             reward == BigMul(I64AsU64(time_elapsed), BigOf(pool.reward_rate))
             scaled == BigMul(reward, REWARD_SCALE)
             reward_per_token == BigDivNat(scaled, pool.total_staked)
             stored == BigAdd(pool.reward_per_token_stored, reward_per_token)
         IN  IF time_elapsed > 0
             THEN IF ~BigLeq(reward, U64_MAX) \/ ~BigLeq(scaled, U128_MAX)
                         \/ ~BigLeq(stored, U128_MAX)
                  THEN [err |-> "Overflow", pool |-> pool]
                  ELSE [err |-> Ok,
                        pool |-> [pool EXCEPT !.reward_per_token_stored = stored,
                                              !.last_update_time = current_time]]
             ELSE [err |-> Ok, pool |-> pool]


\* update_rewards leaving the position's checkpoint where it was
update_rewards_keep_paid(pool, user) ==
    LET reward_per_token == pool.reward_per_token_stored
        behind == BigLeq(user.reward_per_token_paid, reward_per_token)
        product == BigMul(BigOf(user.stake_amount),
                          BigSub(reward_per_token, user.reward_per_token_paid))
        rewards == DivRewardScale(product)
        earned == BigAdd(BigOf(user.rewards_earned), AsU64(rewards))
    IN  IF ~behind THEN [err |-> "Overflow", info |-> user]
        ELSE IF ~BigLeq(product, U128_MAX) \/ ~BigLeq(earned, U64_MAX)
        THEN [err |-> "Overflow", info |-> user]
        ELSE IF ~BigLeq(earned, BigOf(MaxReward)) THEN [err |-> OutOfRange, info |-> user]
        ELSE [err |-> Ok, info |-> [user EXCEPT !.rewards_earned = BigToNat(earned)]]

\* update_rewards: the settlement of a position against the accumulator
update_rewards(pool, user) ==
    LET reward_per_token == pool.reward_per_token_stored
        behind == BigLeq(user.reward_per_token_paid, reward_per_token)
        product == BigMul(BigOf(user.stake_amount),
                          BigSub(reward_per_token, user.reward_per_token_paid))
        rewards == DivRewardScale(product)
        earned == BigAdd(BigOf(user.rewards_earned), AsU64(rewards))
    IN  IF ~behind THEN [err |-> "Overflow", info |-> user]
        ELSE IF ~BigLeq(product, U128_MAX) \/ ~BigLeq(earned, U64_MAX)
        THEN [err |-> "Overflow", info |-> user]
        ELSE IF ~BigLeq(earned, BigOf(MaxReward)) THEN [err |-> OutOfRange, info |-> user]
        ELSE [err |-> Ok,
              info |-> [user EXCEPT !.rewards_earned = BigToNat(earned),
                                    !.reward_per_token_paid = reward_per_token]]

\* the result of the two steps: the first error, or the synced pool and settled position
SettleResult(p, u, pool, user) ==
    IF p.err # Ok THEN [err |-> p.err, pool |-> pool, info |-> user]
    ELSE IF u.err # Ok THEN [err |-> u.err, pool |-> p.pool, info |-> user]
    ELSE [err |-> Ok, pool |-> p.pool, info |-> u.info]

\* update_rewards on the pool that update_pool returned
SettleAfterSync(p, pool, user) == SettleResult(p, update_rewards(p.pool, user), pool, user)

\* update_pool then update_rewards, as every position handler calls them
SyncAndSettle(pool, user, current_time) ==
    SettleAfterSync(update_pool(pool, current_time), pool, user)

staking_process_initialize(pool, t) ==
    IF pool.is_initialized THEN Result("AlreadyInUse", pool, NoData, 0, 0)
    ELSE Result(Ok, [is_initialized |-> TRUE, total_staked |-> 0, reward_rate |-> 100,
                     last_update_time |-> t, reward_per_token_stored |-> <<>>],
                NoData, 0, 0)

\* process_stake after update_pool and update_rewards
process_stake_settled(s, pool, data, caller, amount, t) ==
    LET staked == [s.info EXCEPT !.stake_amount = @ + amount]
    IN  IF s.err # Ok THEN Result(s.err, s.pool, s.info, 0, 0)
        ELSE IF ~BigLeq(BigOf(s.info.stake_amount + amount), U64_MAX)
        THEN Result("Overflow", s.pool, s.info, 0, 0)
        ELSE IF ~BigLeq(BigOf(s.pool.total_staked + amount), U64_MAX)
        THEN Result("Overflow", s.pool, staked, 0, 0)
        ELSE Result(Ok, [s.pool EXCEPT !.total_staked = @ + amount], staked, 0, 0)


\* process_stake restarting the lock of an existing position
process_stake_restart_lock(pool, data, caller, amount, t) ==
    LET user_info == IF data # NoData THEN [data EXCEPT !.start_time = t]
                     ELSE NewStakeInfo(caller, t)
    IN  process_stake_settled(SyncAndSettle(pool, user_info, t),
                              pool, data, caller, amount, t)

process_stake(pool, data, caller, amount, t) ==
    LET user_info == IF data # NoData THEN data ELSE NewStakeInfo(caller, t)
    IN  process_stake_settled(SyncAndSettle(pool, user_info, t),
                              pool, data, caller, amount, t)


\* the lock test rejecting the boundary as well
StakeIsLocked_inclusive(user_info, t) == t <= user_info.start_time + user_info.lock_period

\* the lock test of process_unstake
StakeIsLocked(user_info, t) == t < user_info.start_time + user_info.lock_period

\* process_unstake after update_pool and update_rewards
process_unstake_settled(s, pool, data, amount, t) ==
    LET unstaked == [s.info EXCEPT !.stake_amount = @ - amount]
    IN  IF s.err # Ok THEN Result(s.err, s.pool, s.info, 0, 0)
        ELSE IF s.info.stake_amount < amount
        THEN Result("Overflow", s.pool, s.info, 0, 0)
        ELSE IF s.pool.total_staked < amount
        THEN Result("Overflow", s.pool, unstaked, 0, 0)
        ELSE Result(Ok, [s.pool EXCEPT !.total_staked = @ - amount], unstaked,
                    amount, 0)


\* process_unstake testing the balance before the lock
process_unstake_balance_first(pool, data, amount, t) ==
    IF data = NoData THEN Result("BorshIoError", pool, data, 0, 0)
    ELSE IF amount > data.stake_amount
    THEN Result("InsufficientStakeBalance", pool, data, 0, 0)
    ELSE IF StakeIsLocked(data, t) THEN Result("StakeLocked", pool, data, 0, 0)
    ELSE process_unstake_settled(SyncAndSettle(pool, data, t), pool, data, amount, t)

process_unstake(pool, data, amount, t) ==
    IF data = NoData THEN Result("BorshIoError", pool, data, 0, 0)
    ELSE IF StakeIsLocked(data, t) THEN Result("StakeLocked", pool, data, 0, 0)
    ELSE IF amount > data.stake_amount
    THEN Result("InsufficientStakeBalance", pool, data, 0, 0)
    ELSE process_unstake_settled(SyncAndSettle(pool, data, t), pool, data, amount, t)


\* the fee rounded up
ServiceFee_ceil(amount, bps) ==
    LET product == BigMul(BigOf(amount), BigOf(bps))
    IN  IF BigLeq(product, U64_MAX)
        THEN <<BigToNat(BigDivSmall(BigAdd(product, BigOf(9999)), 10000))>> ELSE <<>>

\* fee = amount * bps / 10000 in checked u64 arithmetic; <<>> when the product overflows
ServiceFee(amount, bps) ==
    LET product == BigMul(BigOf(amount), BigOf(bps))
    IN  IF BigLeq(product, U64_MAX) THEN <<BigToNat(BigDivSmall(product, 10000))>> ELSE <<>>


\* process_claim_reward leaving rewards_earned as it was after the transfers
process_claim_reward_settled_keep_earned(s, pool, data, fee_wallet, t) ==
    LET reward_amount == s.info.rewards_earned
        fee_amount == ServiceFee(reward_amount, STAKING_SERVICE_FEE_BPS)
    IN  IF s.err # Ok THEN Result(s.err, s.pool, s.info, 0, 0)
        ELSE IF reward_amount > 0
        THEN IF fee_amount = <<>> THEN Result("Overflow", s.pool, s.info, 0, 0)
             ELSE Result(Ok, s.pool, s.info, reward_amount - fee_amount[1], fee_amount[1])
        ELSE Result(Ok, s.pool, s.info, 0, 0)

\* process_claim_reward after update_pool and update_rewards
process_claim_reward_settled(s, pool, data, fee_wallet, t) ==
    LET reward_amount == s.info.rewards_earned
        fee_amount == ServiceFee(reward_amount, STAKING_SERVICE_FEE_BPS)
    IN  IF s.err # Ok THEN Result(s.err, s.pool, s.info, 0, 0)
        ELSE IF reward_amount > 0
        THEN IF fee_amount = <<>> THEN Result("Overflow", s.pool, s.info, 0, 0)
             ELSE Result(Ok, s.pool, [s.info EXCEPT !.rewards_earned = 0],
                         reward_amount - fee_amount[1], fee_amount[1])
        ELSE Result(Ok, s.pool, s.info, 0, 0)

\* process_claim_reward without the comparison of the fee wallet account with FEE_WALLET
process_claim_reward_any_wallet(pool, data, fee_wallet, t) ==
    IF data = NoData THEN Result("BorshIoError", pool, data, 0, 0)
    ELSE process_claim_reward_settled(SyncAndSettle(pool, data, t), pool, data, fee_wallet, t)

process_claim_reward(pool, data, fee_wallet, t) ==
    IF fee_wallet # FEE_WALLET THEN Result("InvalidArgument", pool, data, 0, 0)
    ELSE IF data = NoData THEN Result("BorshIoError", pool, data, 0, 0)
    ELSE process_claim_reward_settled(SyncAndSettle(pool, data, t), pool, data, fee_wallet, t)

process_update_pool(pool, t) ==
    LET p == update_pool(pool, t) IN Result(p.err, p.pool, NoData, 0, 0)

-----------------------------------------------------------------------------
(* Lending *)

LENDING_SERVICE_FEE_BPS == 20

DepositAmounts == {100, 3000}
WithdrawAmounts == {1, 100}
BorrowAmounts == {66, 67, 1000}
RepayAmounts == {50, 2000}
MaxTotalDeposits == 3100

ZeroLendingPool ==
    [is_initialized |-> FALSE, total_deposits |-> 0, total_borrows |-> 0,
     last_update_time |-> 0, lending_rate |-> 0, borrowing_rate |-> 0,
     collateral_ratio |-> 0]

NewLendingInfo(owner, t) ==
    [owner |-> owner, deposited_amount |-> 0, borrowed_amount |-> 0,
     collateral_amount |-> 0, last_update_time |-> t,
     cumulative_deposit_interest |-> 0, cumulative_borrow_interest |-> 0]

\* floor(a / (365 * 24 * 60 * 60 * 10000))
DivYearBps(a) == BigDivSmall(BigDivSmall(BigDivSmall(a, 365), 24 * 60 * 60), 10000)

\* amount * rate * time_elapsed / (365*24*60*60*10000) in checked u64 arithmetic;
\* <<>> when a product overflows
Interest(amount, rate, time_elapsed) ==
    LET first == BigMul(BigOf(amount), BigOf(rate))
        second == BigMul(first, time_elapsed)
    IN  IF BigLeq(first, U64_MAX) /\ BigLeq(second, U64_MAX)
        THEN <<BigToNat(DivYearBps(second))>> ELSE <<>>

update_interest(pool, user, current_time) ==
    LET time_elapsed == I64AsU64(current_time - user.last_update_time)
        deposit_interest == IF user.deposited_amount > 0
                            THEN Interest(user.deposited_amount, pool.lending_rate, time_elapsed)
                            ELSE <<0>>
        borrow_interest == IF user.borrowed_amount > 0
                           THEN Interest(user.borrowed_amount, pool.borrowing_rate, time_elapsed)
                           ELSE <<0>>
    IN  IF time_elapsed = <<>> THEN [err |-> Ok, info |-> user]
        ELSE IF deposit_interest = <<>> THEN [err |-> "Overflow", info |-> user]
        ELSE IF borrow_interest = <<>>
        THEN [err |-> "Overflow",
              info |-> [user EXCEPT !.cumulative_deposit_interest = @ + deposit_interest[1]]]
        ELSE [err |-> Ok,
              info |-> [user EXCEPT
                          !.cumulative_deposit_interest = @ + deposit_interest[1],
                          !.cumulative_borrow_interest = @ + borrow_interest[1],
                          !.last_update_time = current_time]]


\* check_collateral_ratio comparing the two amounts one to one, the ratio left out
check_collateral_ratio_no_ratio(pool, deposit_amount, borrow_amount) ==
    borrow_amount = 0 \/ deposit_amount >= borrow_amount

\* check_collateral_ratio with both products taken in u64
check_collateral_ratio_u64(collateral_ratio, deposit_amount, borrow_amount) ==
    IF borrow_amount = <<>> THEN TRUE
    ELSE LET value == BigMul(deposit_amount, BigOf(10000))
             required == BigMul(borrow_amount, collateral_ratio)
             collateral_value == IF BigLeq(value, U64_MAX) THEN value ELSE <<>>
             required_collateral == IF BigLeq(required, U64_MAX) THEN required ELSE <<>>
         IN  BigLeq(required_collateral, collateral_value)

\* check_collateral_ratio on wide values: checked_mul in u128, unwrap_or(0)
check_collateral_ratio_wide(collateral_ratio, deposit_amount, borrow_amount) ==
    IF borrow_amount = <<>> THEN TRUE
    ELSE LET value == BigMul(deposit_amount, BigOf(10000))
             required == BigMul(borrow_amount, collateral_ratio)
             collateral_value == IF BigLeq(value, U128_MAX) THEN value ELSE <<>>
             required_collateral == IF BigLeq(required, U128_MAX) THEN required ELSE <<>>
         IN  BigLeq(required_collateral, collateral_value)

check_collateral_ratio(pool, deposit_amount, borrow_amount) ==
    check_collateral_ratio_wide(BigOf(pool.collateral_ratio), BigOf(deposit_amount),
                                BigOf(borrow_amount))


\* process_initialize without the test of is_initialized
lending_process_initialize_again(pool, t) ==
    Result(Ok, [is_initialized |-> TRUE, total_deposits |-> 0, total_borrows |-> 0,
                last_update_time |-> t, lending_rate |-> 500, borrowing_rate |-> 1000,
                collateral_ratio |-> 15000],
           NoData, 0, 0)

lending_process_initialize(pool, t) ==
    IF pool.is_initialized THEN Result("AlreadyInUse", pool, NoData, 0, 0)
    ELSE Result(Ok, [is_initialized |-> TRUE, total_deposits |-> 0, total_borrows |-> 0,
                     last_update_time |-> t, lending_rate |-> 500, borrowing_rate |-> 1000,
                     collateral_ratio |-> 15000],
                NoData, 0, 0)

\* process_deposit after update_interest
process_deposit_settled(s, pool, data, caller, amount, t) ==
    LET deposited == [s.info EXCEPT !.deposited_amount = @ + amount]
    IN  IF s.err # Ok THEN Result(s.err, pool, s.info, 0, 0)
        ELSE IF ~BigLeq(BigOf(s.info.deposited_amount + amount), U64_MAX)
        THEN Result("Overflow", pool, s.info, 0, 0)
        ELSE IF ~BigLeq(BigOf(pool.total_deposits + amount), U64_MAX)
        THEN Result("Overflow", pool, deposited, 0, 0)
        ELSE Result(Ok, [pool EXCEPT !.total_deposits = @ + amount], deposited, 0, 0)

process_deposit(pool, data, caller, amount, t) ==
    LET user_info == IF data # NoData THEN data ELSE NewLendingInfo(caller, t)
    IN  process_deposit_settled(update_interest(pool, user_info, t),
                                pool, data, caller, amount, t)


\* the withdrawal after update_interest without the test of the collateral ratio
process_withdraw_settled_no_ratio(s, pool, data, amount, t) ==
    LET remaining_deposit == s.info.deposited_amount - amount
        withdrawn == [s.info EXCEPT !.deposited_amount = remaining_deposit]
    IN  IF s.err # Ok THEN Result(s.err, pool, s.info, 0, 0)
        ELSE IF amount > s.info.deposited_amount
        THEN Result("InsufficientLiquidity", pool, s.info, 0, 0)
        ELSE IF pool.total_deposits < amount THEN Result("Overflow", pool, withdrawn, 0, 0)
        ELSE Result(Ok, [pool EXCEPT !.total_deposits = @ - amount], withdrawn,
                    amount, 0)

\* process_withdraw after update_interest
process_withdraw_settled(s, pool, data, amount, t) ==
    LET remaining_deposit == s.info.deposited_amount - amount
        withdrawn == [s.info EXCEPT !.deposited_amount = remaining_deposit]
    IN  IF s.err # Ok THEN Result(s.err, pool, s.info, 0, 0)
        ELSE IF amount > s.info.deposited_amount
        THEN Result("InsufficientLiquidity", pool, s.info, 0, 0)
        ELSE IF ~check_collateral_ratio(pool, remaining_deposit, s.info.borrowed_amount)
        THEN Result("InsufficientCollateral", pool, s.info, 0, 0)
        ELSE IF pool.total_deposits < amount THEN Result("Overflow", pool, withdrawn, 0, 0)
        ELSE Result(Ok, [pool EXCEPT !.total_deposits = @ - amount], withdrawn,
                    amount, 0)

process_withdraw(pool, data, amount, t) ==
    IF data = NoData THEN Result("BorshIoError", pool, data, 0, 0)
    ELSE process_withdraw_settled(update_interest(pool, data, t), pool, data, amount, t)


\* the borrow after update_interest, the debt raised by the net amount
process_borrow_net_debt_settled(s, pool, data, fee_wallet, amount, t) ==
    LET new_borrow_amount == s.info.borrowed_amount + amount
        fee_amount == ServiceFee(amount, LENDING_SERVICE_FEE_BPS)
    IN  IF s.err # Ok THEN Result(s.err, pool, s.info, 0, 0)
        ELSE IF pool.total_deposits < pool.total_borrows
        THEN Result("Overflow", pool, s.info, 0, 0)
        ELSE IF amount > pool.total_deposits - pool.total_borrows
        THEN Result("InsufficientLiquidity", pool, s.info, 0, 0)
        ELSE IF ~BigLeq(BigOf(new_borrow_amount), U64_MAX)
        THEN Result("Overflow", pool, s.info, 0, 0)
        ELSE IF ~check_collateral_ratio(pool, s.info.deposited_amount, new_borrow_amount)
        THEN Result("InsufficientCollateral", pool, s.info, 0, 0)
        ELSE IF fee_amount = <<>> \/ ~BigLeq(BigOf(pool.total_borrows + amount), U64_MAX)
        THEN Result("Overflow", pool, s.info, 0, 0)
        ELSE Result(Ok, [pool EXCEPT !.total_borrows = @ + amount - fee_amount[1]],
                    [s.info EXCEPT !.borrowed_amount = @ + amount - fee_amount[1]],
                    amount - fee_amount[1], fee_amount[1])

\* process_borrow recording the net disbursed amount, the fee left out of the debt
process_borrow_net_debt(pool, data, fee_wallet, amount, t) ==
    IF fee_wallet # FEE_WALLET THEN Result("InvalidArgument", pool, data, 0, 0)
    ELSE IF data = NoData THEN Result("BorshIoError", pool, data, 0, 0)
    ELSE process_borrow_net_debt_settled(update_interest(pool, data, t),
                                         pool, data, fee_wallet, amount, t)

\* the borrow after update_interest, the ratio tested on the old balance
process_borrow_old_balance_settled(s, pool, data, fee_wallet, amount, t) ==
    LET fee_amount == ServiceFee(amount, LENDING_SERVICE_FEE_BPS)
    IN  IF s.err # Ok THEN Result(s.err, pool, s.info, 0, 0)
        ELSE IF pool.total_deposits < pool.total_borrows
        THEN Result("Overflow", pool, s.info, 0, 0)
        ELSE IF amount > pool.total_deposits - pool.total_borrows
        THEN Result("InsufficientLiquidity", pool, s.info, 0, 0)
        ELSE IF ~check_collateral_ratio(pool, s.info.deposited_amount,
                                        s.info.borrowed_amount)
        THEN Result("InsufficientCollateral", pool, s.info, 0, 0)
        ELSE IF fee_amount = <<>> THEN Result("Overflow", pool, s.info, 0, 0)
        ELSE Result(Ok, [pool EXCEPT !.total_borrows = @ + amount],
                    [s.info EXCEPT !.borrowed_amount = @ + amount],
                    amount - fee_amount[1], fee_amount[1])

\* process_borrow testing the ratio on the balance before the borrow
process_borrow_old_balance(pool, data, fee_wallet, amount, t) ==
    IF fee_wallet # FEE_WALLET THEN Result("InvalidArgument", pool, data, 0, 0)
    ELSE IF data = NoData THEN Result("BorshIoError", pool, data, 0, 0)
    ELSE process_borrow_old_balance_settled(update_interest(pool, data, t),
                                            pool, data, fee_wallet, amount, t)

\* process_borrow after update_interest
process_borrow_settled(s, pool, data, fee_wallet, amount, t) ==
    LET new_borrow_amount == s.info.borrowed_amount + amount
        fee_amount == ServiceFee(amount, LENDING_SERVICE_FEE_BPS)
    IN  IF s.err # Ok THEN Result(s.err, pool, s.info, 0, 0)
        ELSE IF pool.total_deposits < pool.total_borrows
        THEN Result("Overflow", pool, s.info, 0, 0)
        ELSE IF amount > pool.total_deposits - pool.total_borrows
        THEN Result("InsufficientLiquidity", pool, s.info, 0, 0)
        ELSE IF ~BigLeq(BigOf(new_borrow_amount), U64_MAX)
        THEN Result("Overflow", pool, s.info, 0, 0)
        ELSE IF ~check_collateral_ratio(pool, s.info.deposited_amount, new_borrow_amount)
        THEN Result("InsufficientCollateral", pool, s.info, 0, 0)
        ELSE IF fee_amount = <<>> \/ ~BigLeq(BigOf(pool.total_borrows + amount), U64_MAX)
        THEN Result("Overflow", pool, s.info, 0, 0)
        ELSE Result(Ok, [pool EXCEPT !.total_borrows = @ + amount],
                    [s.info EXCEPT !.borrowed_amount = new_borrow_amount],
                    amount - fee_amount[1], fee_amount[1])

process_borrow(pool, data, fee_wallet, amount, t) ==
    IF fee_wallet # FEE_WALLET THEN Result("InvalidArgument", pool, data, 0, 0)
    ELSE IF data = NoData THEN Result("BorshIoError", pool, data, 0, 0)
    ELSE process_borrow_settled(update_interest(pool, data, t), pool, data, fee_wallet, amount, t)

\* std::cmp::min
Min(a, b) == IF a <= b THEN a ELSE b


\* process_repay lowering the position's debt and not the pool's total_borrows
process_repay_settled_keep_total(s, pool, data, amount, t) ==
    LET repay_amount == Min(amount, s.info.borrowed_amount)
        repaid == [s.info EXCEPT !.borrowed_amount = @ - repay_amount]
    IN  IF s.err # Ok THEN Result(s.err, pool, s.info, 0, 0)
        ELSE Result(Ok, pool, repaid, 0, 0)

\* process_repay after update_interest
process_repay_settled(s, pool, data, amount, t) ==
    LET repay_amount == Min(amount, s.info.borrowed_amount)
        repaid == [s.info EXCEPT !.borrowed_amount = @ - repay_amount]
    IN  IF s.err # Ok THEN Result(s.err, pool, s.info, 0, 0)
        ELSE IF pool.total_borrows < repay_amount
        THEN Result("Overflow", pool, repaid, 0, 0)
        ELSE Result(Ok, [pool EXCEPT !.total_borrows = @ - repay_amount], repaid, 0, 0)

process_repay(pool, data, amount, t) ==
    IF data = NoData THEN Result("BorshIoError", pool, data, 0, 0)
    ELSE process_repay_settled(update_interest(pool, data, t), pool, data, amount, t)

-----------------------------------------------------------------------------
(* Calls *)


\* the bytes of an amount, least significant first, as a client encodes it
RECURSIVE to_le_bytes(_, _)
to_le_bytes(n, len) ==
    IF len = 0 THEN <<>> ELSE <<n % 256>> \o to_le_bytes(n \div 256, len - 1)

\* the instruction data of a call: the opcode byte, then the amount in 8 bytes
InstructionData(opcode, amount) == <<opcode>> \o to_le_bytes(amount, 8)

\* u64::from_le_bytes: the first byte the least significant
RECURSIVE from_le_bytes(_)
from_le_bytes(data) ==
    IF data = <<>> THEN 0 ELSE data[1] + 256 * from_le_bytes(Tail(data))

\* data.copy_from_slice(&instruction_data[..8]); u64::from_le_bytes(data), on the
\* bytes that follow the opcode
unpack_amount(instruction_data) == from_le_bytes(SubSeq(instruction_data, 1, 8))

\* the values of instruction_data[0] a behaviour uses
OpcodeBytes == 0 .. 8

\* StakingInstruction::try_from_primitive(instruction_data[0])
StakingInstruction(byte) ==
    CASE byte = 0 -> "Initialize"
      [] byte = 1 -> "Stake"
      [] byte = 2 -> "Unstake"
      [] byte = 3 -> "ClaimReward"
      [] byte = 4 -> "UpdatePool"
      [] OTHER -> "InvalidInstructionData"


\* a decoder that keeps only the low three bits of the byte
LendingInstruction_low_bits(byte) ==
    CASE byte % 8 = 0 -> "Initialize"
      [] byte % 8 = 1 -> "Deposit"
      [] byte % 8 = 2 -> "Withdraw"
      [] byte % 8 = 3 -> "Borrow"
      [] byte % 8 = 4 -> "Repay"
      [] byte % 8 = 5 -> "AddCollateral"
      [] byte % 8 = 6 -> "WithdrawCollateral"
      [] OTHER -> "LiquidatePosition"

\* LendingInstruction::try_from_primitive(instruction_data[0])
LendingInstruction(byte) ==
    CASE byte = 0 -> "Initialize"
      [] byte = 1 -> "Deposit"
      [] byte = 2 -> "Withdraw"
      [] byte = 3 -> "Borrow"
      [] byte = 4 -> "Repay"
      [] byte = 5 -> "AddCollateral"
      [] byte = 6 -> "WithdrawCollateral"
      [] byte = 7 -> "LiquidatePosition"
      [] OTHER -> "InvalidInstructionData"

NoOp ==
    [opcode |-> 0, op |-> "none", acct |-> "none", caller |-> "none", amount |-> 0,
     fee_wallet |-> "none", at |-> 0, err |-> Ok, net |-> 0, fee |-> 0,
     pre_pool |-> ZeroStakePool, pre_info |-> [a \in Accounts |-> NoData]]

\* a call: acct is the position account, caller the token account the call names for
\* the participant (user_token_account, user_reward_account)
Call(opcode, op, acct, caller, amount, fee_wallet, r, pool, info) ==
    [opcode |-> opcode, op |-> op, acct |-> acct, caller |-> caller, amount |-> amount,
     fee_wallet |-> fee_wallet, at |-> now, err |-> r.err,
     net |-> IF r.err = Ok THEN r.net ELSE 0, fee |-> IF r.err = Ok THEN r.fee ELSE 0,
     pre_pool |-> pool, pre_info |-> info]

\* pool.serialize / user_info.serialize, reached only on the Ok path
StakingCommit(opcode, op, acct, caller, amount, fee_wallet, r) ==
    /\ r.err # OutOfRange
    /\ lastOp.err = Ok
    /\ r.err = Ok => calls < MaxCalls
    /\ calls' = IF r.err = Ok THEN calls + 1 ELSE calls
    /\ initFirst' = IF r.err = Ok /\ op = "Initialize" THEN calls = 0 ELSE initFirst
    /\ stakePool' = IF r.err = Ok THEN r.pool ELSE stakePool
    /\ stakeInfo' = IF r.err = Ok /\ acct \in Accounts
                    THEN [stakeInfo EXCEPT ![acct] = r.info] ELSE stakeInfo
    /\ lastOp' = Call(opcode, op, acct, caller, amount, fee_wallet, r, stakePool, stakeInfo)
    /\ paidOut' = IF r.err = Ok /\ op = "ClaimReward"
                  THEN [paidOut EXCEPT ![acct] = @ + r.net + r.fee] ELSE paidOut
    /\ UNCHANGED <<saleVars, splitCheck, ratioCheck, program, now, lendingPool, lendingInfo, emitted, rewound>>

StakingInitialize ==
    /\ program = "staking"
    /\ \E opcode \in OpcodeBytes :
          /\ StakingInstruction(opcode) = "Initialize"
          /\ StakingCommit(opcode, "Initialize", "none", "none", 0, "none",
                           staking_process_initialize(stakePool, now))

Stake ==
    /\ program = "staking"
    /\ \E opcode \in OpcodeBytes, acct \in Accounts, amount \in StakeAmounts :
          /\ StakingInstruction(opcode) = "Stake"
          /\ stakePool.total_staked + amount <= MaxTotalStaked
          /\ OpensInOrder(stakeInfo, acct)
          /\ StakingCommit(opcode, "Stake", acct, acct, amount, "none",
                           process_stake(stakePool, stakeInfo[acct], acct,
                                         unpack_amount(Tail(InstructionData(opcode, amount))),
                                         now))

Unstake ==
    /\ program = "staking"
    /\ \E opcode \in OpcodeBytes, acct \in Accounts, caller \in Accounts,
          amount \in StakeAmounts :
          /\ StakingInstruction(opcode) = "Unstake"
          /\ caller # acct => amount = 700
          /\ StakingCommit(opcode, "Unstake", acct, caller, amount, "none",
                           process_unstake(stakePool, stakeInfo[acct],
                                           unpack_amount(Tail(InstructionData(opcode, amount))),
                                           now))

ClaimReward ==
    /\ program = "staking"
    /\ \E opcode \in OpcodeBytes, acct \in Accounts, caller \in Accounts,
          fee_wallet \in FeeWallets :
          /\ StakingInstruction(opcode) = "ClaimReward"
          /\ caller # acct => fee_wallet = FEE_WALLET
          /\ StakingCommit(opcode, "ClaimReward", acct, caller, 0, fee_wallet,
                           process_claim_reward(stakePool, stakeInfo[acct], fee_wallet, now))

UpdatePool ==
    /\ program = "staking"
    /\ \E opcode \in OpcodeBytes :
          /\ StakingInstruction(opcode) = "UpdatePool"
          /\ StakingCommit(opcode, "UpdatePool", "none", "none", 0, "none",
                           process_update_pool(stakePool, now))


\* the handler's local copies written to the accounts whatever the handler returns
LendingCommit_write_through(opcode, op, acct, caller, amount, fee_wallet, r) ==
    /\ lastOp.err = Ok
    /\ r.err = Ok => calls < MaxCalls
    /\ calls' = IF r.err = Ok THEN calls + 1 ELSE calls
    /\ initFirst' = IF r.err = Ok /\ op = "Initialize" THEN calls = 0 ELSE initFirst
    /\ lendingPool' = r.pool
    /\ lendingInfo' = IF acct \in Accounts
                      THEN [lendingInfo EXCEPT ![acct] = r.info] ELSE lendingInfo
    /\ lastOp' = Call(opcode, op, acct, caller, amount, fee_wallet, r, lendingPool, lendingInfo)
    /\ UNCHANGED <<saleVars, splitCheck, ratioCheck, program, now, stakePool, stakeInfo, emitted, paidOut, rewound>>

LendingCommit(opcode, op, acct, caller, amount, fee_wallet, r) ==
    /\ lastOp.err = Ok
    /\ r.err = Ok => calls < MaxCalls
    /\ calls' = IF r.err = Ok THEN calls + 1 ELSE calls
    /\ initFirst' = IF r.err = Ok /\ op = "Initialize" THEN calls = 0 ELSE initFirst
    /\ lendingPool' = IF r.err = Ok THEN r.pool ELSE lendingPool
    /\ lendingInfo' = IF r.err = Ok /\ acct \in Accounts
                      THEN [lendingInfo EXCEPT ![acct] = r.info] ELSE lendingInfo
    /\ lastOp' = Call(opcode, op, acct, caller, amount, fee_wallet, r, lendingPool, lendingInfo)
    /\ UNCHANGED <<saleVars, splitCheck, ratioCheck, program, now, stakePool, stakeInfo, emitted, paidOut, rewound>>

LendingInitialize ==
    /\ program = "lending"
    /\ \E opcode \in OpcodeBytes :
          /\ LendingInstruction(opcode) = "Initialize"
          /\ LendingCommit(opcode, "Initialize", "none", "none", 0, "none",
                           lending_process_initialize(lendingPool, now))

Deposit ==
    /\ program = "lending"
    /\ \E opcode \in OpcodeBytes, acct \in Accounts, amount \in DepositAmounts :
          /\ LendingInstruction(opcode) = "Deposit"
          /\ lendingPool.total_deposits + amount <= MaxTotalDeposits
          /\ OpensInOrder(lendingInfo, acct)
          /\ LendingCommit(opcode, "Deposit", acct, acct, amount, "none",
                           process_deposit(lendingPool, lendingInfo[acct], acct,
                                           unpack_amount(Tail(InstructionData(opcode, amount))),
                                           now))

Withdraw ==
    /\ program = "lending"
    /\ \E opcode \in OpcodeBytes, acct \in Accounts, caller \in Accounts,
          amount \in WithdrawAmounts :
          /\ LendingInstruction(opcode) = "Withdraw"
          /\ caller # acct => amount = 100
          /\ LendingCommit(opcode, "Withdraw", acct, caller, amount, "none",
                           process_withdraw(lendingPool, lendingInfo[acct],
                                            unpack_amount(Tail(InstructionData(opcode, amount))),
                                            now))

Borrow ==
    /\ program = "lending"
    /\ \E opcode \in OpcodeBytes, acct \in Accounts, caller \in Accounts,
          amount \in BorrowAmounts, fee_wallet \in FeeWallets :
          /\ LendingInstruction(opcode) = "Borrow"
          /\ fee_wallet # FEE_WALLET => amount = 66 /\ caller = acct
          /\ caller # acct => amount = 66
          /\ LendingCommit(opcode, "Borrow", acct, caller, amount, fee_wallet,
                           process_borrow(lendingPool, lendingInfo[acct], fee_wallet,
                                          unpack_amount(Tail(InstructionData(opcode, amount))),
                                          now))

Repay ==
    /\ program = "lending"
    /\ \E opcode \in OpcodeBytes, acct \in Accounts, caller \in Accounts,
          amount \in RepayAmounts :
          /\ LendingInstruction(opcode) = "Repay"
          /\ caller # acct => amount = 2000
          /\ LendingCommit(opcode, "Repay", acct, caller, amount, "none",
                           process_repay(lendingPool, lendingInfo[acct],
                                         unpack_amount(Tail(InstructionData(opcode, amount))),
                                         now))

\* process_add_collateral, process_withdraw_collateral, process_liquidate_position:
\* the body is Ok(()), no account is read or written
\* the amounts in the payload of a call of one of the three empty handlers
StubPayloads == {0, 1000}

\* process_add_collateral doing what its comment says: raising collateral_amount
process_add_collateral_counted(pool, data) ==
    Result(Ok, pool,
           IF data = NoData THEN data ELSE [data EXCEPT !.collateral_amount = @ + 1], 0, 0)

process_add_collateral(pool, data) == Result(Ok, pool, data, 0, 0)
process_withdraw_collateral(pool, data) == Result(Ok, pool, data, 0, 0)
process_liquidate_position(pool, data) == Result(Ok, pool, data, 0, 0)

AddCollateral ==
    /\ program = "lending"
    /\ \E opcode \in OpcodeBytes, acct \in Accounts, amount \in StubPayloads :
          /\ LendingInstruction(opcode) = "AddCollateral"
          /\ LendingCommit(opcode, "AddCollateral", acct, acct, amount, "none",
                           process_add_collateral(lendingPool, lendingInfo[acct]))

WithdrawCollateral ==
    /\ program = "lending"
    /\ \E opcode \in OpcodeBytes, acct \in Accounts, amount \in StubPayloads :
          /\ LendingInstruction(opcode) = "WithdrawCollateral"
          /\ LendingCommit(opcode, "WithdrawCollateral", acct, acct, amount, "none",
                           process_withdraw_collateral(lendingPool, lendingInfo[acct]))

LiquidatePosition ==
    /\ program = "lending"
    /\ \E opcode \in OpcodeBytes, acct \in Accounts, caller \in Accounts,
          amount \in StubPayloads :
          /\ LendingInstruction(opcode) = "LiquidatePosition"
          /\ caller # acct
          /\ LendingCommit(opcode, "LiquidatePosition", acct, caller, amount, "none",
                           process_liquidate_position(lendingPool, lendingInfo[acct]))

\* a first byte that is no variant of the program's instruction enum:
\* process_instruction returns InvalidInstructionData before any handler runs
InvalidOpcode ==
    \E opcode \in OpcodeBytes :
        \/ /\ program = "staking"
           /\ StakingInstruction(opcode) = "InvalidInstructionData"
           /\ StakingCommit(opcode, "none", "none", "none", 0, "none",
                            Result("InvalidInstructionData", stakePool, NoData, 0, 0))
        \/ /\ program = "lending"
           /\ LendingInstruction(opcode) = "InvalidInstructionData"
           /\ LendingCommit(opcode, "none", "none", "none", 0, "none",
                            Result("InvalidInstructionData", lendingPool, NoData, 0, 0))

\* the clock sysvar moves forward between calls
AdvanceClock ==
    \E t \in (IF program = "lending" THEN LendingTimes ELSE StakingTimes) :
        /\ t > now
        /\ lastOp.err = Ok
        /\ now' = t
        /\ emitted' = emitted + (IF program = "staking" /\ stakePool.total_staked > 0
                                 THEN (t - now) * stakePool.reward_rate ELSE 0)
        /\ UNCHANGED <<saleVars, splitCheck, ratioCheck, program, stakePool, stakeInfo, lendingPool, lendingInfo, lastOp, paidOut, calls, initFirst, rewound>>

\* the accounts before the first call
InitRecords ==
    /\ campaign = NoData
    /\ whitelist = [w \in WhitelistAccounts |-> NoData]
    /\ claimsMade = [e \in WhitelistAccounts \X Accounts |-> 0]
    /\ launchpad = NoData
    /\ participants = [a \in Accounts |-> NoData]
    /\ created = 0
    /\ now = 0
    /\ stakePool = ZeroStakePool
    /\ stakeInfo = [a \in Accounts |-> NoData]
    /\ lendingPool = ZeroLendingPool
    /\ lendingInfo = [a \in Accounts |-> NoData]
    /\ lastOp = NoOp
    /\ emitted = 0
    /\ calls = 0
    /\ initFirst = FALSE
    /\ paidOut = [a \in Accounts |-> 0]
    /\ rewound = FALSE

InitAccounts == program \in {"staking", "lending"} /\ InitRecords

\* no evaluation of check_collateral_ratio on its own
NoCheck == [deposit |-> <<>>, borrow |-> <<>>, ratio |-> <<>>, result |-> "none"]

\* no settlement comparison is in progress
NoCredit == [err |-> "none", deposit |-> 0, borrow |-> 0, reward |-> 0]
NoSplit == [principal |-> 0, owed |-> 0, total |-> 0, t1 |-> 0, t2 |-> 0,
            once |-> NoCredit, twice |-> NoCredit]

Init == InitAccounts /\ ratioCheck = NoCheck /\ splitCheck = NoSplit

Next ==
    \/ StakingInitialize
    \/ Stake
    \/ Unstake
    \/ ClaimReward
    \/ UpdatePool
    \/ LendingInitialize
    \/ Deposit
    \/ Withdraw
    \/ Borrow
    \/ Repay
    \/ AddCollateral
    \/ WithdrawCollateral
    \/ LiquidatePosition
    \/ InvalidOpcode
    \/ AdvanceClock

Spec == Init /\ [][Next]_vars

\* the clock sysvar hands a call an earlier value than it handed the call before;
\* a behaviour holds one such step
RewindClock ==
    \E t \in (IF program = "lending" THEN LendingTimes ELSE StakingTimes) :
        /\ t < now
        /\ lastOp.err = Ok
        /\ ~rewound
        /\ now' = t
        /\ rewound' = TRUE
        /\ UNCHANGED <<saleVars, splitCheck, ratioCheck, program, stakePool, stakeInfo, lendingPool, lendingInfo, lastOp, emitted, paidOut, calls, initFirst>>

InitStaking == Init /\ program = "staking"

NextAnyClock ==
    \/ StakingInitialize
    \/ Stake
    \/ Unstake
    \/ ClaimReward
    \/ UpdatePool
    \/ AdvanceClock
    \/ RewindClock

\* the staking program under a clock that moves both ways
SpecAnyClock == InitStaking /\ [][NextAnyClock]_vars

InitLending == Init /\ program = "lending"

NextLendingAnyClock ==
    \/ LendingInitialize
    \/ Deposit
    \/ Withdraw
    \/ Borrow
    \/ Repay
    \/ AdvanceClock
    \/ RewindClock

\* the lending program under a clock that moves both ways
SpecLendingAnyClock == InitLending /\ [][NextLendingAnyClock]_vars

\* deposits of the size of a whole token supply (10^9 base units) and a clock value more
\* than a year on
LargeDepositAmounts == {100, 1000000000}
MaxLargeDeposits == 1000000200
FarTimes == {40000000}

\* Deposit with the amounts of LargeDepositAmounts
DepositLarge ==
    /\ program = "lending"
    /\ \E opcode \in OpcodeBytes, acct \in Accounts, amount \in LargeDepositAmounts :
          /\ LendingInstruction(opcode) = "Deposit"
          /\ lendingPool.total_deposits <= MaxLargeDeposits - amount
          /\ OpensInOrder(lendingInfo, acct)
          /\ LendingCommit(opcode, "Deposit", acct, acct, amount, "none",
                           process_deposit(lendingPool, lendingInfo[acct], acct,
                                           unpack_amount(Tail(InstructionData(opcode, amount))),
                                           now))

\* the clock sysvar moves forward by more than a year
AdvanceClockFar ==
    \E t \in FarTimes :
        /\ t > now
        /\ lastOp.err = Ok
        /\ now' = t
        /\ UNCHANGED <<saleVars, splitCheck, ratioCheck, program, stakePool, stakeInfo, lendingPool, lendingInfo, lastOp,
                       emitted, paidOut, calls, initFirst, rewound>>

NextLargeBalances ==
    \/ LendingInitialize
    \/ DepositLarge
    \/ Withdraw
    \/ Borrow
    \/ Repay
    \/ AdvanceClockFar

\* the lending program with large balances, under a forward clock
SpecLargeBalances == InitLending /\ [][NextLargeBalances]_vars

\* 64-bit values for check_collateral_ratio: the ends of the range, the values next to
\* them, and the pool's ratio
RatioAmounts == {<<>>, <<1>>, <<2>>, BigOf(10000), BigSub(U64_MAX, <<1>>), U64_MAX}
CollateralRatios == {<<>>, <<1>>, BigOf(10000), BigOf(15000), U64_MAX}

InitRatioCheck ==
    /\ InitAccounts /\ program = "lending" /\ splitCheck = NoSplit
    /\ ratioCheck \in [deposit : RatioAmounts, borrow : RatioAmounts,
                       ratio : CollateralRatios, result : {"none"}]

\* one call of check_collateral_ratio on the drawn values
CheckRatio ==
    /\ ratioCheck.result = "none"
    /\ ratioCheck' = [ratioCheck EXCEPT
                        !.result = IF check_collateral_ratio_wide(ratioCheck.ratio,
                                                                  ratioCheck.deposit,
                                                                  ratioCheck.borrow)
                                   THEN "true" ELSE "false"]
    /\ UNCHANGED <<saleVars, splitCheck, program, now, stakePool, stakeInfo, lendingPool, lendingInfo, lastOp,
                   emitted, paidOut, calls, initFirst, rewound>>

NextRatioCheck == CheckRatio

\* check_collateral_ratio as a function of 64-bit values
SpecRatioCheck == InitRatioCheck /\ [][NextRatioCheck]_vars


\* a deposit that backs a loan of 66, and the whole of it withdrawn again
LongDepositAmounts == {100}
LongWithdrawAmounts == {100}
LongBorrowAmounts == {66, 67}
MaxLongCalls == 5

\* the runtime persists what a handler wrote when it returns Ok; behaviours of
\* up to MaxLongCalls successful instructions
LendingCommitLong(opcode, op, acct, caller, amount, fee_wallet, r) ==
    /\ lastOp.err = Ok
    /\ r.err = Ok => calls < MaxLongCalls
    /\ calls' = IF r.err = Ok THEN calls + 1 ELSE calls
    /\ initFirst' = IF r.err = Ok /\ op = "Initialize" THEN calls = 0 ELSE initFirst
    /\ lendingPool' = IF r.err = Ok THEN r.pool ELSE lendingPool
    /\ lendingInfo' = IF r.err = Ok /\ acct \in Accounts
                      THEN [lendingInfo EXCEPT ![acct] = r.info] ELSE lendingInfo
    /\ lastOp' = Call(opcode, op, acct, caller, amount, fee_wallet, r, lendingPool, lendingInfo)
    /\ UNCHANGED <<saleVars, splitCheck, ratioCheck, program, now, stakePool, stakeInfo, emitted, paidOut, rewound>>

InitializeLong ==
    /\ program = "lending"
    /\ \E opcode \in OpcodeBytes :
          /\ LendingInstruction(opcode) = "Initialize"
          /\ LendingCommitLong(opcode, "Initialize", "none", "none", 0, "none",
                               lending_process_initialize(lendingPool, now))

DepositLong ==
    /\ program = "lending"
    /\ \E opcode \in OpcodeBytes, acct \in Accounts, amount \in LongDepositAmounts :
          /\ LendingInstruction(opcode) = "Deposit"
          /\ lendingPool.total_deposits + amount <= MaxTotalDeposits
          /\ OpensInOrder(lendingInfo, acct)
          /\ LendingCommitLong(opcode, "Deposit", acct, acct, amount, "none",
                               process_deposit(lendingPool, lendingInfo[acct], acct,
                                               unpack_amount(Tail(InstructionData(opcode, amount))),
                                               now))

WithdrawLong ==
    /\ program = "lending"
    /\ \E opcode \in OpcodeBytes, acct \in Accounts, amount \in LongWithdrawAmounts :
          /\ LendingInstruction(opcode) = "Withdraw"
          /\ LendingCommitLong(opcode, "Withdraw", acct, acct, amount, "none",
                               process_withdraw(lendingPool, lendingInfo[acct],
                                                unpack_amount(Tail(InstructionData(opcode, amount))),
                                                now))

BorrowLong ==
    /\ program = "lending"
    /\ \E opcode \in OpcodeBytes, acct \in Accounts, amount \in LongBorrowAmounts :
          /\ LendingInstruction(opcode) = "Borrow"
          /\ LendingCommitLong(opcode, "Borrow", acct, acct, amount, FEE_WALLET,
                               process_borrow(lendingPool, lendingInfo[acct], FEE_WALLET,
                                              unpack_amount(Tail(InstructionData(opcode, amount))),
                                              now))

NextLong ==
    \/ InitializeLong
    \/ DepositLong
    \/ WithdrawLong
    \/ BorrowLong
    \/ AdvanceClock

\* the lending program over behaviours of up to MaxLongCalls instructions
SpecLong == InitLending /\ [][NextLong]_vars


\* principals, loans, pool totals and settlement times of the compared settlements;
\* the position was last settled at time 0
SplitDeposits == {0, 100, 3129, 1000000000}
SplitLoans == {0, 67, 2000}
SplitStakes == {700, 1000}
SplitTotals == {1000, 1700}
SplitLendingTimes == {302400, 604800, 20000000, 40000000}
SplitStakingTimes == {10, 302400, 604800}

\* what a settlement added to the position it started from; nothing is kept of a
\* settlement that returned an error
LendingCredit(r, start) ==
    [err |-> r.err,
     deposit |-> IF r.err = Ok
                 THEN r.info.cumulative_deposit_interest - start.cumulative_deposit_interest
                 ELSE 0,
     borrow |-> IF r.err = Ok
                THEN r.info.cumulative_borrow_interest - start.cumulative_borrow_interest
                ELSE 0,
     reward |-> 0]

StakingCredit(r, start) ==
    [err |-> r.err, deposit |-> 0, borrow |-> 0,
     reward |-> IF r.err = Ok THEN r.info.rewards_earned - start.rewards_earned ELSE 0]

\* the second of two settlements, made on what the first one left
LendingSecond(pool, first, start, t2) ==
    IF first.err # Ok THEN LendingCredit(first, start)
    ELSE LET second == update_interest(pool, first.info, t2)
         IN  IF second.err # Ok
             THEN [LendingCredit(first, start) EXCEPT !.err = second.err]
             ELSE LendingCredit(second, start)

StakingSecond(first, start, t2) ==
    IF first.err # Ok THEN StakingCredit(first, start)
    ELSE LET second == SyncAndSettle(first.pool, first.info, t2)
         IN  IF second.err # Ok
             THEN [StakingCredit(first, start) EXCEPT !.err = second.err]
             ELSE StakingCredit(second, start)

SplitLendingPool == lending_process_initialize(ZeroLendingPool, 0).pool
SplitLendingInfo(principal, owed) ==
    [NewLendingInfo("a1", 0) EXCEPT !.deposited_amount = principal,
                                    !.borrowed_amount = owed]
SplitStakePool(total) ==
    [staking_process_initialize(ZeroStakePool, 0).pool EXCEPT !.total_staked = total]
SplitStakeInfo(principal) == [NewStakeInfo("a1", 0) EXCEPT !.stake_amount = principal]

InitSplit ==
    /\ InitAccounts /\ ratioCheck = NoCheck
    /\ \/ /\ program = "lending"
          /\ splitCheck \in [principal : SplitDeposits, owed : SplitLoans, total : {0},
                             t1 : SplitLendingTimes, t2 : SplitLendingTimes,
                             once : {NoCredit}, twice : {NoCredit}]
       \/ /\ program = "staking"
          /\ splitCheck \in [principal : SplitStakes, owed : {0}, total : SplitTotals,
                             t1 : SplitStakingTimes, t2 : SplitStakingTimes,
                             once : {NoCredit}, twice : {NoCredit}]
    /\ splitCheck.t1 <= splitCheck.t2

\* update_interest at t2, and update_interest at t1 and again at t2, on one position
SettleLending ==
    /\ program = "lending" /\ splitCheck.once = NoCredit
    /\ LET user == SplitLendingInfo(splitCheck.principal, splitCheck.owed)
       IN  splitCheck' =
              [splitCheck EXCEPT
                 !.once = LendingCredit(update_interest(SplitLendingPool, user, splitCheck.t2),
                                        user),
                 !.twice = LendingSecond(SplitLendingPool,
                                         update_interest(SplitLendingPool, user, splitCheck.t1),
                                         user, splitCheck.t2)]
    /\ UNCHANGED <<saleVars, ratioCheck, program, now, stakePool, stakeInfo, lendingPool, lendingInfo,
                   lastOp, emitted, paidOut, calls, initFirst, rewound>>

\* update_pool and update_rewards at t2, and at t1 and again at t2, on one position
SettleStaking ==
    /\ program = "staking" /\ splitCheck.once = NoCredit
    /\ LET user == SplitStakeInfo(splitCheck.principal)
           pool == SplitStakePool(splitCheck.total)
       IN  splitCheck' =
              [splitCheck EXCEPT
                 !.once = StakingCredit(SyncAndSettle(pool, user, splitCheck.t2), user),
                 !.twice = StakingSecond(SyncAndSettle(pool, user, splitCheck.t1),
                                         user, splitCheck.t2)]
    /\ UNCHANGED <<saleVars, ratioCheck, program, now, stakePool, stakeInfo, lendingPool, lendingInfo,
                   lastOp, emitted, paidOut, calls, initFirst, rewound>>

NextSplit ==
    \/ SettleLending
    \/ SettleStaking

\* one interval settled once and settled in two parts
SpecSplit == InitSplit /\ [][NextSplit]_vars

\* a stake near the largest the model's integers hold, and a stake of one base unit
LargeStakeAmounts == {1, 2136944276}
MaxLargeStake == 2136944277

\* a clock value two years and nine months after 0
LateTimes == {86323000}

\* Stake with the amounts of LargeStakeAmounts
StakeLarge ==
    /\ program = "staking"
    /\ \E opcode \in OpcodeBytes, acct \in Accounts, amount \in LargeStakeAmounts :
          /\ StakingInstruction(opcode) = "Stake"
          /\ stakePool.total_staked <= MaxLargeStake - amount
          /\ stakeInfo[acct] # NoData => stakeInfo[acct].stake_amount <= MaxLargeStake - amount
          /\ OpensInOrder(stakeInfo, acct)
          /\ StakingCommit(opcode, "Stake", acct, acct, amount, "none",
                           process_stake(stakePool, stakeInfo[acct], acct,
                                         unpack_amount(Tail(InstructionData(opcode, amount))),
                                         now))

\* the clock sysvar moves forward by years
AdvanceClockLate ==
    \E t \in LateTimes :
        /\ t > now
        /\ lastOp.err = Ok
        /\ now' = t
        /\ UNCHANGED <<saleVars, splitCheck, ratioCheck, program, stakePool, stakeInfo, lendingPool, lendingInfo, lastOp,
                       emitted, paidOut, calls, initFirst, rewound>>

NextLargeStakes ==
    \/ StakingInitialize
    \/ StakeLarge
    \/ Unstake
    \/ ClaimReward
    \/ UpdatePool
    \/ AdvanceClockLate

\* the staking program with large stakes, under a forward clock
SpecLargeStakes == InitStaking /\ [][NextLargeStakes]_vars

-----------------------------------------------------------------------------
(* Airdrop *)

AIRDROP_BASE_FEE == 100000000
PER_RECIPIENT_FEE == 1000000

\* AirdropInstruction::try_from_primitive(instruction_data[0])
AirdropInstruction(byte) ==
    CASE byte = 0 -> "CreateCampaign"
      [] byte = 1 -> "AddToWhitelist"
      [] byte = 2 -> "RemoveFromWhitelist"
      [] byte = 3 -> "StartAirdrop"
      [] byte = 4 -> "EndAirdrop"
      [] byte = 5 -> "ClaimAirdrop"
      [] byte = 6 -> "WithdrawRemainingTokens"
      [] OTHER -> "InvalidInstructionData"

\* what a handler returns and what it would persist
AirdropResult(e, c, w, n, f) == [err |-> e, campaign |-> c, entry |-> w, net |-> n, fee |-> f]

\* the campaigns CreateCampaign is called with: claimed_count = 0
CampaignData ==
    [owner : {"a1"}, mint : {"mint"}, total_amount : {10}, amount_per_recipient : {5},
     start_time : {0}, end_time : {0}, is_active : BOOLEAN, claimed_count : {0},
     max_recipients : {1, 2}, whitelist_required : BOOLEAN]

\* the entries AddToWhitelist is called with
WhitelistData == [wallet : Accounts, has_claimed : BOOLEAN]

\* a cross-program transfer the runtime refused
TransferFailed == "TransferFailed"

process_create_campaign(fee_wallet, campaign_data, invoked) ==
    LET total_fee == AIRDROP_BASE_FEE + (PER_RECIPIENT_FEE * campaign_data.max_recipients)
    IN  IF fee_wallet # FEE_WALLET THEN AirdropResult("InvalidArgument", NoData, NoData, 0, 0)
        ELSE IF ~invoked THEN AirdropResult(TransferFailed, NoData, NoData, 0, 0)
        ELSE AirdropResult(Ok, campaign_data, NoData, 0, total_fee)

airdrop_process_add_to_whitelist(campaign_data, owner_account, whitelist_entry) ==
    IF campaign_data = NoData THEN AirdropResult("BorshIoError", campaign_data, NoData, 0, 0)
    ELSE IF campaign_data.owner # owner_account
    THEN AirdropResult("InvalidCampaignOwner", campaign_data, NoData, 0, 0)
    ELSE AirdropResult(Ok, campaign_data, whitelist_entry, 0, 0)

\* the whitelist account is left with 0 lamports: the runtime removes it with its data
airdrop_process_remove_from_whitelist(campaign_data, owner_account) ==
    IF campaign_data = NoData THEN AirdropResult("BorshIoError", campaign_data, NoData, 0, 0)
    ELSE IF campaign_data.owner # owner_account
    THEN AirdropResult("InvalidCampaignOwner", campaign_data, NoData, 0, 0)
    ELSE AirdropResult(Ok, campaign_data, NoData, 0, 0)

process_start_airdrop(campaign_data, owner_account, t) ==
    IF campaign_data = NoData THEN AirdropResult("BorshIoError", campaign_data, NoData, 0, 0)
    ELSE IF campaign_data.owner # owner_account
    THEN AirdropResult("InvalidCampaignOwner", campaign_data, NoData, 0, 0)
    ELSE AirdropResult(Ok, [campaign_data EXCEPT !.is_active = TRUE, !.start_time = t],
                       NoData, 0, 0)

process_end_airdrop(campaign_data, owner_account, t) ==
    IF campaign_data = NoData THEN AirdropResult("BorshIoError", campaign_data, NoData, 0, 0)
    ELSE IF campaign_data.owner # owner_account
    THEN AirdropResult("InvalidCampaignOwner", campaign_data, NoData, 0, 0)
    ELSE AirdropResult(Ok, [campaign_data EXCEPT !.is_active = FALSE, !.end_time = t],
                       NoData, 0, 0)

process_claim_airdrop(campaign_data, whitelist_entry, claimer_account, invoked) ==
    IF campaign_data = NoData
    THEN AirdropResult("BorshIoError", campaign_data, whitelist_entry, 0, 0)
    ELSE IF ~campaign_data.is_active
    THEN AirdropResult("CampaignNotActive", campaign_data, whitelist_entry, 0, 0)
    ELSE IF campaign_data.claimed_count >= campaign_data.max_recipients
    THEN AirdropResult("MaxRecipientsReached", campaign_data, whitelist_entry, 0, 0)
    ELSE IF campaign_data.whitelist_required /\ whitelist_entry = NoData
    THEN AirdropResult("BorshIoError", campaign_data, whitelist_entry, 0, 0)
    ELSE IF campaign_data.whitelist_required /\ whitelist_entry.wallet # claimer_account
    THEN AirdropResult("NotWhitelisted", campaign_data, whitelist_entry, 0, 0)
    ELSE IF campaign_data.whitelist_required /\ whitelist_entry.has_claimed
    THEN AirdropResult("AlreadyClaimed", campaign_data, whitelist_entry, 0, 0)
    ELSE IF ~invoked
    THEN AirdropResult(TransferFailed, campaign_data, whitelist_entry, 0, 0)
    ELSE AirdropResult(Ok, [campaign_data EXCEPT !.claimed_count = @ + 1],
                       IF campaign_data.whitelist_required
                       THEN [whitelist_entry EXCEPT !.has_claimed = TRUE]
                       ELSE whitelist_entry,
                       campaign_data.amount_per_recipient, 0)

process_withdraw_remaining_tokens(campaign_data, owner_account, invoked) ==
    IF campaign_data = NoData THEN AirdropResult("BorshIoError", campaign_data, NoData, 0, 0)
    ELSE IF campaign_data.owner # owner_account
    THEN AirdropResult("InvalidCampaignOwner", campaign_data, NoData, 0, 0)
    ELSE IF campaign_data.is_active
    THEN AirdropResult("CampaignNotActive", campaign_data, NoData, 0, 0)
    ELSE IF campaign_data.claimed_count * campaign_data.amount_per_recipient
                > campaign_data.total_amount
    THEN AirdropResult("Panic", campaign_data, NoData, 0, 0)
    ELSE IF ~invoked THEN AirdropResult(TransferFailed, campaign_data, NoData, 0, 0)
    ELSE AirdropResult(Ok, campaign_data, NoData,
                       campaign_data.total_amount
                          - campaign_data.claimed_count * campaign_data.amount_per_recipient,
                       0)

MaxAirdropCalls == 5

\* the runtime persists what an airdrop handler wrote when it returns Ok
AirdropCommit(opcode, op, acct, caller, fee_wallet, r) ==
    /\ lastOp.err = Ok
    /\ r.err = Ok => calls < MaxAirdropCalls
    /\ calls' = IF r.err = Ok THEN calls + 1 ELSE calls
    /\ campaign' = IF r.err = Ok THEN r.campaign ELSE campaign
    /\ whitelist' = IF r.err = Ok /\ acct \in WhitelistAccounts
                    THEN [whitelist EXCEPT ![acct] = r.entry] ELSE whitelist
    /\ claimsMade' = IF r.err = Ok /\ op = "ClaimAirdrop" /\ campaign.whitelist_required
                     THEN [claimsMade EXCEPT ![<<acct, caller>>] = @ + 1] ELSE claimsMade
    /\ created' = IF r.err = Ok /\ op = "CreateCampaign" THEN created + 1 ELSE created
    /\ lastOp' = Call(opcode, op, acct, caller, 0, fee_wallet, r, campaign, whitelist)
    /\ UNCHANGED <<launchpad, participants, splitCheck, ratioCheck, program, now, stakePool,
                   stakeInfo, lendingPool, lendingInfo, emitted, paidOut, initFirst, rewound>>

CreateCampaign ==
    /\ program = "airdrop"
    /\ \E opcode \in OpcodeBytes, owner \in Accounts, fee_wallet \in FeeWallets,
          campaign_data \in CampaignData, invoked \in BOOLEAN :
          /\ AirdropInstruction(opcode) = "CreateCampaign"
          /\ (fee_wallet # FEE_WALLET \/ ~invoked) => owner = "a1"
          /\ AirdropCommit(opcode, "CreateCampaign", "none", owner, fee_wallet,
                           process_create_campaign(fee_wallet, campaign_data, invoked))

AddToWhitelist ==
    /\ program = "airdrop"
    /\ \E opcode \in OpcodeBytes, owner \in Accounts, w \in WhitelistAccounts,
          whitelist_entry \in WhitelistData :
          /\ AirdropInstruction(opcode) = "AddToWhitelist"
          /\ AirdropCommit(opcode, "AddToWhitelist", w, owner, "none",
                           airdrop_process_add_to_whitelist(campaign, owner, whitelist_entry))

RemoveFromWhitelist ==
    /\ program = "airdrop"
    /\ \E opcode \in OpcodeBytes, owner \in Accounts, w \in WhitelistAccounts :
          /\ AirdropInstruction(opcode) = "RemoveFromWhitelist"
          /\ AirdropCommit(opcode, "RemoveFromWhitelist", w, owner, "none",
                           airdrop_process_remove_from_whitelist(campaign, owner))

StartAirdrop ==
    /\ program = "airdrop"
    /\ \E opcode \in OpcodeBytes, owner \in Accounts :
          /\ AirdropInstruction(opcode) = "StartAirdrop"
          /\ AirdropCommit(opcode, "StartAirdrop", "none", owner, "none",
                           process_start_airdrop(campaign, owner, now))

EndAirdrop ==
    /\ program = "airdrop"
    /\ \E opcode \in OpcodeBytes, owner \in Accounts :
          /\ AirdropInstruction(opcode) = "EndAirdrop"
          /\ AirdropCommit(opcode, "EndAirdrop", "none", owner, "none",
                           process_end_airdrop(campaign, owner, now))

ClaimAirdrop ==
    /\ program = "airdrop"
    /\ \E opcode \in OpcodeBytes, claimer \in Accounts, w \in WhitelistAccounts,
          invoked \in BOOLEAN :
          /\ AirdropInstruction(opcode) = "ClaimAirdrop"
          /\ AirdropCommit(opcode, "ClaimAirdrop", w, claimer, "none",
                           process_claim_airdrop(campaign, whitelist[w], claimer, invoked))

WithdrawRemainingTokens ==
    /\ program = "airdrop"
    /\ \E opcode \in OpcodeBytes, owner \in Accounts, invoked \in BOOLEAN :
          /\ AirdropInstruction(opcode) = "WithdrawRemainingTokens"
          /\ AirdropCommit(opcode, "WithdrawRemainingTokens", "none", owner, "none",
                           process_withdraw_remaining_tokens(campaign, owner, invoked))

InitAirdrop ==
    /\ program = "airdrop" /\ InitRecords
    /\ ratioCheck = NoCheck /\ splitCheck = NoSplit

NextAirdrop ==
    \/ CreateCampaign
    \/ AddToWhitelist
    \/ RemoveFromWhitelist
    \/ StartAirdrop
    \/ EndAirdrop
    \/ ClaimAirdrop
    \/ WithdrawRemainingTokens

\* the airdrop program
SpecAirdrop == InitAirdrop /\ [][NextAirdrop]_vars

-----------------------------------------------------------------------------
(* Launchpad *)

LAUNCH_BASE_FEE == 1000000000
TIER_FEE == 500000000

\* LaunchpadInstruction::try_from_primitive(instruction_data[0])
LaunchpadInstruction(byte) ==
    CASE byte = 0 -> "CreateLaunchpad"
      [] byte = 1 -> "ConfigureTiers"
      [] byte = 2 -> "StartPresale"
      [] byte = 3 -> "EndPresale"
      [] byte = 4 -> "Participate"
      [] byte = 5 -> "ClaimTokens"
      [] byte = 6 -> "WithdrawFunds"
      [] byte = 7 -> "CancelLaunch"
      [] byte = 8 -> "AddToWhitelist"
      [] byte = 9 -> "RemoveFromWhitelist"
      [] OTHER -> "InvalidInstructionData"

LaunchpadOpcodeBytes == 0 .. 10

\* what a handler returns and what it would persist
LaunchpadResult(e, c, i, n, f) == [err |-> e, config |-> c, info |-> i, net |-> n, fee |-> f]

\* the tier systems of the instruction data: none, one tier with a vesting period of
\* 10 s, and an enabled system without tiers
NoTiers == [enabled |-> FALSE, tiers |-> <<>>]
OneTier ==
    [enabled |-> TRUE,
     tiers |-> <<[name |-> "tier", required_tokens |-> 0, allocation_multiplier |-> 1,
                  vesting_period |-> 10]>>]
TierSystems == {NoTiers, OneTier, [enabled |-> TRUE, tiers |-> <<>>]}

\* the configurations CreateLaunchpad is called with: total_raised = 0
LaunchpadData ==
    [owner : {"a1"}, mint : {"mint"}, total_supply : {1000}, tokens_for_presale : {100},
     price_per_token : {1}, min_buy : {4}, max_buy : {6}, start_time : {0}, end_time : {0},
     soft_cap : {5}, hard_cap : {10}, liquidity_percentage : {50}, listing_price : {1},
     is_active : BOOLEAN, total_sold : {0}, total_raised : {0},
     tier_system : {NoTiers, OneTier}]

\* the lamports a participant offers
ParticipateAmounts == {3, 4, 6, 7}

process_create_launchpad(fee_wallet, config, invoked) ==
    LET tier_count == IF config.tier_system.enabled THEN Len(config.tier_system.tiers) ELSE 0
        total_fee == LAUNCH_BASE_FEE + (TIER_FEE * tier_count)
    IN  IF fee_wallet # FEE_WALLET THEN LaunchpadResult("InvalidArgument", NoData, NoData, 0, 0)
        ELSE IF ~invoked THEN LaunchpadResult(TransferFailed, NoData, NoData, 0, 0)
        ELSE LaunchpadResult(Ok, config, NoData, 0, total_fee)

process_configure_tiers(config, owner_account, tier_system) ==
    IF config = NoData THEN LaunchpadResult("BorshIoError", config, NoData, 0, 0)
    ELSE IF config.owner # owner_account
    THEN LaunchpadResult("InvalidOwner", config, NoData, 0, 0)
    ELSE LaunchpadResult(Ok, [config EXCEPT !.tier_system = tier_system], NoData, 0, 0)

process_start_presale(config, owner_account, t) ==
    IF config = NoData THEN LaunchpadResult("BorshIoError", config, NoData, 0, 0)
    ELSE IF config.owner # owner_account
    THEN LaunchpadResult("InvalidOwner", config, NoData, 0, 0)
    ELSE LaunchpadResult(Ok, [config EXCEPT !.is_active = TRUE, !.start_time = t],
                         NoData, 0, 0)

process_participate(config, participant_info, participant_account, amount, invoked) ==
    IF config = NoData THEN LaunchpadResult("BorshIoError", config, participant_info, 0, 0)
    ELSE IF ~config.is_active
    THEN LaunchpadResult("PresaleNotActive", config, participant_info, 0, 0)
    ELSE IF amount < config.min_buy \/ amount > config.max_buy
    THEN LaunchpadResult("InvalidAmount", config, participant_info, 0, 0)
    ELSE IF config.total_raised + amount > config.hard_cap
    THEN LaunchpadResult("HardCapReached", config, participant_info, 0, 0)
    ELSE IF ~invoked THEN LaunchpadResult(TransferFailed, config, participant_info, 0, 0)
    ELSE IF config.hard_cap = 0 THEN LaunchpadResult("Panic", config, participant_info, 0, 0)
    ELSE LET tokens_amount == (amount * config.tokens_for_presale) \div config.hard_cap
         IN  LaunchpadResult(
                Ok,
                [config EXCEPT !.total_raised = @ + amount, !.total_sold = @ + tokens_amount],
                IF participant_info = NoData
                THEN [wallet |-> participant_account, amount_contributed |-> amount,
                      tokens_owed |-> tokens_amount, tokens_claimed |-> 0, tier |-> 0,
                      last_claim_time |-> 0]
                ELSE [participant_info EXCEPT !.amount_contributed = @ + amount,
                                              !.tokens_owed = @ + tokens_amount],
                amount, 0)

process_claim_tokens(config, participant_info, t, invoked) ==
    IF config = NoData \/ participant_info = NoData
    THEN LaunchpadResult("BorshIoError", config, participant_info, 0, 0)
    ELSE IF config.is_active
    THEN LaunchpadResult("PresaleNotActive", config, participant_info, 0, 0)
    ELSE IF config.total_raised < config.soft_cap
    THEN LaunchpadResult("SoftCapNotReached", config, participant_info, 0, 0)
    ELSE IF config.tier_system.enabled
               /\ participant_info.tier + 1 > Len(config.tier_system.tiers)
    THEN LaunchpadResult("Panic", config, participant_info, 0, 0)
    ELSE IF config.tier_system.enabled
               /\ t < participant_info.last_claim_time
                         + config.tier_system.tiers[participant_info.tier + 1].vesting_period
    THEN LaunchpadResult("VestingPeriodNotEnded", config, participant_info, 0, 0)
    ELSE IF participant_info.tokens_owed < participant_info.tokens_claimed
    THEN LaunchpadResult("Panic", config, participant_info, 0, 0)
    ELSE IF ~invoked THEN LaunchpadResult(TransferFailed, config, participant_info, 0, 0)
    ELSE LET claimable_amount == participant_info.tokens_owed - participant_info.tokens_claimed
         IN  LaunchpadResult(
                Ok, config,
                [participant_info EXCEPT !.tokens_claimed = @ + claimable_amount,
                                         !.last_claim_time = t],
                claimable_amount, 0)

\* the launchpad account's lamports go to the owner; no record is written
process_withdraw_funds(config, owner_account) ==
    IF config = NoData THEN LaunchpadResult("BorshIoError", config, NoData, 0, 0)
    ELSE IF config.owner # owner_account
    THEN LaunchpadResult("InvalidOwner", config, NoData, 0, 0)
    ELSE IF config.is_active THEN LaunchpadResult("PresaleNotActive", config, NoData, 0, 0)
    ELSE IF config.total_raised < config.soft_cap
    THEN LaunchpadResult("SoftCapNotReached", config, NoData, 0, 0)
    ELSE LaunchpadResult(Ok, config, NoData, 0, 0)

process_cancel_launch(config, owner_account, t) ==
    IF config = NoData THEN LaunchpadResult("BorshIoError", config, NoData, 0, 0)
    ELSE IF config.owner # owner_account
    THEN LaunchpadResult("InvalidOwner", config, NoData, 0, 0)
    ELSE LaunchpadResult(Ok, [config EXCEPT !.is_active = FALSE, !.end_time = t],
                         NoData, 0, 0)

launchpad_process_add_to_whitelist(config, owner_account, wallet) ==
    IF config = NoData THEN LaunchpadResult("BorshIoError", config, NoData, 0, 0)
    ELSE IF config.owner # owner_account
    THEN LaunchpadResult("InvalidOwner", config, NoData, 0, 0)
    ELSE LaunchpadResult(Ok, config, [wallet |-> wallet], 0, 0)

\* the whitelist account is left with 0 lamports: the runtime removes it with its data
launchpad_process_remove_from_whitelist(config, owner_account) ==
    IF config = NoData THEN LaunchpadResult("BorshIoError", config, NoData, 0, 0)
    ELSE IF config.owner # owner_account
    THEN LaunchpadResult("InvalidOwner", config, NoData, 0, 0)
    ELSE LaunchpadResult(Ok, config, NoData, 0, 0)

MaxLaunchpadCalls == 4

\* the runtime persists what a launchpad handler wrote when it returns Ok
LaunchpadCommit(opcode, op, acct, caller, amount, fee_wallet, r) ==
    /\ lastOp.err = Ok
    /\ r.err = Ok => calls < MaxLaunchpadCalls
    /\ calls' = IF r.err = Ok THEN calls + 1 ELSE calls
    /\ launchpad' = IF r.err = Ok THEN r.config ELSE launchpad
    /\ participants' = IF r.err = Ok /\ acct \in Accounts
                       THEN [participants EXCEPT ![acct] = r.info] ELSE participants
    /\ whitelist' = IF r.err = Ok /\ acct \in WhitelistAccounts
                    THEN [whitelist EXCEPT ![acct] = r.info] ELSE whitelist
    /\ created' = IF r.err = Ok /\ op = "CreateLaunchpad" THEN created + 1 ELSE created
    /\ lastOp' = Call(opcode, op, acct, caller, amount, fee_wallet, r, launchpad, participants)
    /\ UNCHANGED <<campaign, claimsMade, splitCheck, ratioCheck, program, now, stakePool,
                   stakeInfo, lendingPool, lendingInfo, emitted, paidOut, initFirst, rewound>>

CreateLaunchpad ==
    /\ program = "launchpad"
    /\ \E opcode \in LaunchpadOpcodeBytes, fee_wallet \in FeeWallets,
          config \in LaunchpadData, invoked \in BOOLEAN :
          /\ LaunchpadInstruction(opcode) = "CreateLaunchpad"
          /\ LaunchpadCommit(opcode, "CreateLaunchpad", "none", "a1", 0, fee_wallet,
                             process_create_launchpad(fee_wallet, config, invoked))

ConfigureTiers ==
    /\ program = "launchpad"
    /\ \E opcode \in LaunchpadOpcodeBytes, owner \in Accounts, tier_system \in TierSystems :
          /\ LaunchpadInstruction(opcode) = "ConfigureTiers"
          /\ LaunchpadCommit(opcode, "ConfigureTiers", "none", owner, 0, "none",
                             process_configure_tiers(launchpad, owner, tier_system))

StartPresale ==
    /\ program = "launchpad"
    /\ \E opcode \in LaunchpadOpcodeBytes, owner \in Accounts :
          /\ LaunchpadInstruction(opcode) = "StartPresale"
          /\ LaunchpadCommit(opcode, "StartPresale", "none", owner, 0, "none",
                             process_start_presale(launchpad, owner, now))

Participate ==
    /\ program = "launchpad"
    /\ \E opcode \in LaunchpadOpcodeBytes, acct \in Accounts, caller \in Accounts,
          amount \in ParticipateAmounts, invoked \in BOOLEAN :
          /\ LaunchpadInstruction(opcode) = "Participate"
          /\ OpensInOrder(participants, acct)
          /\ caller # acct => amount = 4 /\ invoked
          /\ LaunchpadCommit(opcode, "Participate", acct, caller, amount, "none",
                             process_participate(launchpad, participants[acct], caller,
                                                 amount, invoked))

ClaimTokens ==
    /\ program = "launchpad"
    /\ \E opcode \in LaunchpadOpcodeBytes, acct \in Accounts, caller \in Accounts,
          invoked \in BOOLEAN :
          /\ LaunchpadInstruction(opcode) = "ClaimTokens"
          /\ caller # acct => invoked
          /\ LaunchpadCommit(opcode, "ClaimTokens", acct, caller, 0, "none",
                             process_claim_tokens(launchpad, participants[acct], now, invoked))

WithdrawFunds ==
    /\ program = "launchpad"
    /\ \E opcode \in LaunchpadOpcodeBytes, owner \in Accounts :
          /\ LaunchpadInstruction(opcode) = "WithdrawFunds"
          /\ LaunchpadCommit(opcode, "WithdrawFunds", "none", owner, 0, "none",
                             process_withdraw_funds(launchpad, owner))

CancelLaunch ==
    /\ program = "launchpad"
    /\ \E opcode \in LaunchpadOpcodeBytes, owner \in Accounts :
          /\ LaunchpadInstruction(opcode) = "CancelLaunch"
          /\ LaunchpadCommit(opcode, "CancelLaunch", "none", owner, 0, "none",
                             process_cancel_launch(launchpad, owner, now))

LaunchpadAddToWhitelist ==
    /\ program = "launchpad"
    /\ \E opcode \in LaunchpadOpcodeBytes, owner \in Accounts :
          /\ LaunchpadInstruction(opcode) = "AddToWhitelist"
          /\ LaunchpadCommit(opcode, "AddToWhitelist", "w1", owner, 0, "none",
                             launchpad_process_add_to_whitelist(launchpad, owner, "a1"))

LaunchpadRemoveFromWhitelist ==
    /\ program = "launchpad"
    /\ \E opcode \in LaunchpadOpcodeBytes, owner \in Accounts :
          /\ LaunchpadInstruction(opcode) = "RemoveFromWhitelist"
          /\ LaunchpadCommit(opcode, "RemoveFromWhitelist", "w1", owner, 0, "none",
                             launchpad_process_remove_from_whitelist(launchpad, owner))

InitLaunchpad ==
    /\ program = "launchpad" /\ InitRecords
    /\ ratioCheck = NoCheck /\ splitCheck = NoSplit

NextLaunchpad ==
    \/ CreateLaunchpad
    \/ ConfigureTiers
    \/ StartPresale
    \/ Participate
    \/ ClaimTokens
    \/ WithdrawFunds
    \/ CancelLaunch
    \/ LaunchpadAddToWhitelist
    \/ LaunchpadRemoveFromWhitelist
    \/ AdvanceClock

\* the launchpad program
SpecLaunchpad == InitLaunchpad /\ [][NextLaunchpad]_vars

-----------------------------------------------------------------------------
(* Properties *)

\* the accounts are as they were before the last call
LendingUnchanged == lendingPool = lastOp.pre_pool /\ lendingInfo = lastOp.pre_info
StakingUnchanged == stakePool = lastOp.pre_pool /\ stakeInfo = lastOp.pre_info

\* C1: after every successful Borrow and every successful Withdraw the position of the
\* call satisfies deposited_amount * 10000 >= borrowed_amount * pool.collateral_ratio.
C1_CollateralSafety ==
    (program = "lending" /\ lastOp.op \in {"Borrow", "Withdraw"} /\ lastOp.err = Ok) =>
        LET u == lendingInfo[lastOp.acct]
        IN  u.deposited_amount * 10000 >= u.borrowed_amount * lendingPool.collateral_ratio

\* a Withdraw accepted exactly at the ratio: 99 * 10000 = 66 * 15000
C1_Witness ==
    /\ program = "lending" /\ lastOp.op = "Withdraw" /\ lastOp.err = Ok
    /\ lendingPool.collateral_ratio = 15000
    /\ lendingInfo[lastOp.acct].borrowed_amount = 66
    /\ lendingInfo[lastOp.acct].deposited_amount = 99

\* a Borrow with the right fee wallet on an existing position whose balance after the
\* borrow would break the ratio
BorrowBreakingRatio ==
    /\ program = "lending" /\ lastOp.op = "Borrow" /\ lastOp.fee_wallet = FEE_WALLET
    /\ lastOp.pre_info[lastOp.acct] # NoData
    /\ lastOp.pre_info[lastOp.acct].deposited_amount * 10000
          < (lastOp.pre_info[lastOp.acct].borrowed_amount + lastOp.amount)
               * lastOp.pre_pool.collateral_ratio

CreditedTo(a) ==
    (IF stakeInfo[a] = NoData THEN 0 ELSE stakeInfo[a].rewards_earned) + paidOut[a]

RECURSIVE SumOver(_, _)
SumOver(S, f) ==
    IF S = {} THEN 0 ELSE LET a == CHOOSE x \in S : TRUE IN f[a] + SumOver(S \ {a}, f)

Credited == SumOver(Accounts, [a \in Accounts |-> CreditedTo(a)])

\* C3: in every reachable state the reward credited to all positions together is at most
\* reward_rate * (seconds that passed while total_staked > 0).
C3_Conservation == program = "staking" => Credited <= emitted

\* the same on pools whose first successful call was Initialize
C3_ConservationInitFirst == (program = "staking" /\ initFirst) => Credited <= emitted

\* a position staked before Initialize is credited more than the pool emitted
C3_OverCredited ==
    /\ program = "staking" /\ ~initFirst /\ stakePool.is_initialized
    /\ emitted > 0 /\ Credited > emitted

\* a pool initialized first that has credited all of a positive emission
C3_InitFirstWitness ==
    /\ program = "staking" /\ initFirst /\ emitted > 0 /\ Credited = emitted

\* C4: no step lowers the staking pool's reward_per_token_stored, and no sync of a
\* reachable pool to any clock value of the model, earlier ones included, returns a
\* lower one.
C4_AccumulatorMonotone ==
    [][/\ BigLeq(stakePool.reward_per_token_stored, stakePool'.reward_per_token_stored)
       /\ \A t \in StakingTimes :
             BigLeq(stakePool.reward_per_token_stored,
                    update_pool(stakePool, t).pool.reward_per_token_stored)]_vars

\* a call made at a clock value below the pool's last_update_time, on an initialized
\* pool whose accumulator is above zero: the call succeeds and the accumulator stands
C4_Witness ==
    /\ program = "staking" /\ rewound /\ stakePool.is_initialized /\ lastOp.err = Ok
    /\ lastOp.op \in {"Stake", "Unstake", "ClaimReward", "UpdatePool"}
    /\ lastOp.at < lastOp.pre_pool.last_update_time
    /\ lastOp.pre_pool.reward_per_token_stored # <<>>
    /\ BigLeq(lastOp.pre_pool.reward_per_token_stored, stakePool.reward_per_token_stored)

\* C5: after a successful Stake, Unstake or ClaimReward made at clock value now the
\* position's reward_per_token_paid equals the pool's reward_per_token_stored and the
\* pool's last_update_time equals now; after a successful Deposit, Withdraw, Borrow or
\* Repay the position's last_update_time equals now; the gross amount ClaimReward hands
\* out is the position's reward settled to now.
C5_Freshness ==
    /\ (program = "staking" /\ lastOp.err = Ok
           /\ lastOp.op \in {"Stake", "Unstake", "ClaimReward"}) =>
          /\ stakeInfo[lastOp.acct].reward_per_token_paid = stakePool.reward_per_token_stored
          /\ stakePool.last_update_time = lastOp.at
    /\ (program = "lending" /\ lastOp.err = Ok
           /\ lastOp.op \in {"Deposit", "Withdraw", "Borrow", "Repay"}) =>
          lendingInfo[lastOp.acct].last_update_time = lastOp.at
    /\ (program = "staking" /\ lastOp.err = Ok /\ lastOp.op = "ClaimReward") =>
          lastOp.net + lastOp.fee =
             SyncAndSettle(lastOp.pre_pool, lastOp.pre_info[lastOp.acct], lastOp.at)
                .info.rewards_earned

\* a ClaimReward that had to sync the pool first: it pays the reward of the seconds
\* since the last sync
C5_ForwardWitness ==
    /\ program = "staking" /\ lastOp.err = Ok /\ lastOp.op = "ClaimReward"
    /\ lastOp.pre_pool.last_update_time < lastOp.at
    /\ lastOp.pre_info[lastOp.acct].rewards_earned = 0
    /\ lastOp.net + lastOp.fee > 0
    /\ stakePool.last_update_time = lastOp.at

\* a successful Stake, Unstake or ClaimReward at a clock value below the pool's
\* last_update_time leaves last_update_time ahead of the call's clock value
C5_StaleSync ==
    /\ program = "staking" /\ lastOp.err = Ok /\ lastOp.pre_pool.is_initialized
    /\ lastOp.op \in {"Stake", "Unstake", "ClaimReward"}
    /\ lastOp.at < stakePool.last_update_time

\* C6: settling a second time at the same clock value changes nothing.  For every
\* reachable pool, every position and every clock value t: when sync and settle at t
\* succeed, sync and settle at t of their result succeed and return it unchanged
\* (staking: accumulator, last_update_time, rewards_earned, reward_per_token_paid;
\* lending: both cumulative interests and last_update_time).
C6_SettleIdempotent ==
    /\ program = "staking" =>
          \A a \in Accounts, t \in StakingTimes :
             stakeInfo[a] # NoData =>
                LET s1 == SyncAndSettle(stakePool, stakeInfo[a], t)
                    s2 == SyncAndSettle(s1.pool, s1.info, t)
                IN  s1.err = Ok => s2 = s1
    /\ program = "lending" =>
          \A a \in Accounts, t \in LendingTimes :
             lendingInfo[a] # NoData =>
                LET u1 == update_interest(lendingPool, lendingInfo[a], t)
                    u2 == update_interest(lendingPool, u1.info, t)
                IN  u1.err = Ok => u2 = u1

\* a staking position whose first settlement at the current clock value moves the
\* accumulator and credits a reward
C6_Witness ==
    /\ program = "staking"
    /\ \E a \in Accounts :
          /\ stakeInfo[a] # NoData
          /\ LET s1 == SyncAndSettle(stakePool, stakeInfo[a], now)
             IN  /\ s1.err = Ok
                 /\ s1.pool.reward_per_token_stored # stakePool.reward_per_token_stored
                 /\ s1.info.rewards_earned > stakeInfo[a].rewards_earned

\* a lending position whose first settlement at the current clock value adds interest
\* on both sides
C6_LendingWitness ==
    /\ program = "lending"
    /\ \E a \in Accounts :
          /\ lendingInfo[a] # NoData
          /\ LET u1 == update_interest(lendingPool, lendingInfo[a], now)
             IN  /\ u1.err = Ok
                 /\ u1.info.cumulative_deposit_interest
                       > lendingInfo[a].cumulative_deposit_interest
                 /\ u1.info.cumulative_borrow_interest
                       > lendingInfo[a].cumulative_borrow_interest

\* the last call settled the only staker of the pool: the position of the call held all
\* of total_staked, no other position held stake, the accumulator and the position's
\* checkpoint were 0, no reward was pending and time had passed since the last sync
SingleStakerSettled ==
    /\ program = "staking" /\ lastOp.err = Ok
    /\ lastOp.op \in {"Stake", "Unstake", "ClaimReward"}
    /\ lastOp.pre_info[lastOp.acct] # NoData
    /\ lastOp.pre_info[lastOp.acct].stake_amount > 0
    /\ lastOp.pre_info[lastOp.acct].stake_amount = lastOp.pre_pool.total_staked
    /\ \A b \in Accounts \ {lastOp.acct} :
          lastOp.pre_info[b] = NoData \/ lastOp.pre_info[b].stake_amount = 0
    /\ lastOp.pre_pool.reward_per_token_stored = <<>>
    /\ lastOp.pre_info[lastOp.acct].reward_per_token_paid = <<>>
    /\ lastOp.pre_info[lastOp.acct].rewards_earned = 0
    /\ lastOp.at > lastOp.pre_pool.last_update_time

\* the reward the last call settled: what ClaimReward handed out, or what Stake and
\* Unstake left in rewards_earned
SettledReward ==
    IF lastOp.op = "ClaimReward" THEN lastOp.net + lastOp.fee
    ELSE stakeInfo[lastOp.acct].rewards_earned

\* C7: a single staker with stake S > 0, accumulator 0, settled T seconds after the
\* last sync at rate R, is credited T * R or T * R - 1 (floor rounding), never more
\* than T * R; for S = 1000, R = 100, T = 10 the reward is 1000.
C7_SingleStakerReward ==
    SingleStakerSettled =>
        LET T == lastOp.at - lastOp.pre_pool.last_update_time
            R == lastOp.pre_pool.reward_rate
            S == lastOp.pre_info[lastOp.acct].stake_amount
        IN  /\ SettledReward <= T * R
            /\ SettledReward >= T * R - 1
            /\ (S = 1000 /\ R = 100 /\ T = 10) => SettledReward = 1000

\* S = 1000, R = 100, T = 10: ClaimReward hands out 1000
C7_Witness ==
    /\ SingleStakerSettled /\ lastOp.op = "ClaimReward"
    /\ lastOp.pre_info[lastOp.acct].stake_amount = 1000
    /\ lastOp.pre_pool.reward_rate = 100
    /\ lastOp.at - lastOp.pre_pool.last_update_time = 10
    /\ lastOp.net + lastOp.fee = 1000

\* S = 700: the floor of the accumulator costs one unit, 999 of 10 * 100
C7_RoundedWitness ==
    /\ SingleStakerSettled
    /\ lastOp.pre_info[lastOp.acct].stake_amount = 700
    /\ lastOp.pre_pool.reward_rate = 100
    /\ lastOp.at - lastOp.pre_pool.last_update_time = 10
    /\ SettledReward = 999

\* C8: a successful Borrow of amount v hands out fee = floor(v * 20 / 10000) and
\* net = v - fee; a successful ClaimReward of a settled reward v hands out
\* fee = floor(v * 30 / 10000) and net = v - fee; fee + net = v in both.
C8_FeeSkim ==
    /\ (program = "lending" /\ lastOp.op = "Borrow" /\ lastOp.err = Ok) =>
          /\ lastOp.fee = (lastOp.amount * 20) \div 10000
          /\ lastOp.net = lastOp.amount - lastOp.fee
          /\ lastOp.fee + lastOp.net = lastOp.amount
    /\ (program = "staking" /\ lastOp.op = "ClaimReward" /\ lastOp.err = Ok) =>
          LET v == SyncAndSettle(lastOp.pre_pool, lastOp.pre_info[lastOp.acct], lastOp.at)
                      .info.rewards_earned
          IN  /\ lastOp.fee = (v * 30) \div 10000
              /\ lastOp.net = v - lastOp.fee
              /\ lastOp.fee + lastOp.net = v

\* ClaimReward of v = 1000 at 30 bps: fee 3, net 997
C8_Witness ==
    /\ program = "staking" /\ lastOp.op = "ClaimReward" /\ lastOp.err = Ok
    /\ SyncAndSettle(lastOp.pre_pool, lastOp.pre_info[lastOp.acct], lastOp.at)
          .info.rewards_earned = 1000
    /\ lastOp.fee = 3 /\ lastOp.net = 997

\* Borrow of v = 1000 at 20 bps: fee 2, net 998
C8_BorrowWitness ==
    /\ program = "lending" /\ lastOp.op = "Borrow" /\ lastOp.err = Ok
    /\ lastOp.amount = 1000 /\ lastOp.fee = 2 /\ lastOp.net = 998

\* the last call was a Repay that lowered the position's borrowed_amount and the pool's
\* total_borrows by min(requested, borrowed_amount) and changed nothing else but the
\* settlement fields of the position
RepaidByMin ==
    LET pre == lastOp.pre_info[lastOp.acct]
        post == lendingInfo[lastOp.acct]
        repaid == Min(lastOp.amount, pre.borrowed_amount)
    IN  /\ post.borrowed_amount = pre.borrowed_amount - repaid
        /\ post.borrowed_amount >= 0
        /\ lastOp.amount >= pre.borrowed_amount => post.borrowed_amount = 0
        /\ lendingPool.total_borrows = lastOp.pre_pool.total_borrows - repaid
        /\ lendingPool.total_deposits = lastOp.pre_pool.total_deposits
        /\ post.deposited_amount = pre.deposited_amount
        /\ post.collateral_amount = pre.collateral_amount
        /\ post.owner = pre.owner
        /\ \A b \in Accounts \ {lastOp.acct} : lendingInfo[b] = lastOp.pre_info[b]

\* C9: a Repay of any requested amount on a position lowers borrowed_amount and
\* total_borrows by exactly min(requested, borrowed_amount); borrowed_amount stays at
\* or above 0, an over-repayment leaves it at 0 and credits no other field.
C9_RepayCap ==
    (program = "lending" /\ lastOp.op = "Repay" /\ lastOp.pre_info[lastOp.acct] # NoData) =>
        lastOp.err = Ok /\ RepaidByMin

\* the same for the Repay calls that return Ok
C9_RepayCapOnSuccess ==
    (program = "lending" /\ lastOp.op = "Repay" /\ lastOp.err = Ok) => RepaidByMin

\* an over-repayment: 2000 requested on a debt of 66 leaves borrowed_amount 0
C9_OverRepayWitness ==
    /\ program = "lending" /\ lastOp.op = "Repay" /\ lastOp.err = Ok
    /\ lastOp.amount = 2000 /\ lastOp.pre_info[lastOp.acct].borrowed_amount = 66
    /\ lendingInfo[lastOp.acct].borrowed_amount = 0

\* a Repay on an initialized pool rejected because the pool's total_borrows is below
\* the debt of the position
C9_RepayRejected ==
    /\ program = "lending" /\ lastOp.op = "Repay" /\ lastOp.err = "Overflow"
    /\ lastOp.pre_pool.is_initialized
    /\ lastOp.pre_info[lastOp.acct] # NoData
    /\ lastOp.pre_info[lastOp.acct].borrowed_amount > 0
    /\ lastOp.pre_pool.total_borrows
          < Min(lastOp.amount, lastOp.pre_info[lastOp.acct].borrowed_amount)
    /\ LendingUnchanged

\* C9 on behaviours whose first successful call was Initialize
C9_RepayCapInitFirst ==
    (program = "lending" /\ initFirst /\ lastOp.op = "Repay"
        /\ lastOp.pre_info[lastOp.acct] # NoData) =>
        lastOp.err = Ok /\ RepaidByMin

\* C10: an Unstake on a position at a clock value below start_time + lock_period is
\* rejected with StakeLocked and changes nothing, whatever the amount; at
\* start_time + lock_period and later it is not rejected with StakeLocked; one second
\* before the boundary every amount is rejected and at the boundary the lock test
\* passes; no call lowers a position's stake_amount at a clock value below its
\* start_time + lock_period.
C10_LockSafety ==
    program = "staking" =>
       /\ (lastOp.op = "Unstake" /\ lastOp.pre_info[lastOp.acct] # NoData) =>
             LET pre == lastOp.pre_info[lastOp.acct]
             IN  IF lastOp.at < pre.start_time + pre.lock_period
                 THEN lastOp.err = "StakeLocked" /\ StakingUnchanged
                 ELSE lastOp.err # "StakeLocked"
       /\ \A a \in Accounts :
             (lastOp.pre_info[a] # NoData
                 /\ stakeInfo[a].stake_amount < lastOp.pre_info[a].stake_amount) =>
                lastOp.at >= lastOp.pre_info[a].start_time + lastOp.pre_info[a].lock_period
       /\ \A a \in Accounts, amount \in StakeAmounts :
             stakeInfo[a] # NoData =>
                LET unlock == stakeInfo[a].start_time + stakeInfo[a].lock_period
                IN  /\ process_unstake(stakePool, stakeInfo[a], amount, unlock - 1).err
                          = "StakeLocked"
                    /\ ~StakeIsLocked(stakeInfo[a], unlock)

\* an Unstake accepted exactly at start_time + lock_period
C10_Witness ==
    /\ program = "staking" /\ lastOp.op = "Unstake" /\ lastOp.err = Ok
    /\ lastOp.at = lastOp.pre_info[lastOp.acct].start_time
                      + lastOp.pre_info[lastOp.acct].lock_period
    /\ stakeInfo[lastOp.acct].stake_amount < lastOp.pre_info[lastOp.acct].stake_amount

\* an Unstake rejected with StakeLocked after the clock came back from the unlock time
C10_LockedWitness ==
    /\ program = "staking" /\ lastOp.op = "Unstake" /\ lastOp.err = "StakeLocked"
    /\ rewound /\ StakingUnchanged
    /\ lastOp.pre_info[lastOp.acct].stake_amount >= lastOp.amount

\* C11: a call that returns an error leaves the pool record and every position record
\* as they were before the call.
C11_FailureAtomicity ==
    lastOp.err # Ok =>
        /\ program = "staking" => StakingUnchanged
        /\ program = "lending" => LendingUnchanged

\* a Borrow rejected for its collateral after the handler had settled the position in
\* its local copy (last_update_time moved to the clock value of the call)
C11_Witness ==
    /\ program = "lending" /\ lastOp.op = "Borrow"
    /\ lastOp.err = "InsufficientCollateral"
    /\ update_interest(lastOp.pre_pool, lastOp.pre_info[lastOp.acct], lastOp.at).info
          # lastOp.pre_info[lastOp.acct]
    /\ LendingUnchanged

\* an Unstake rejected with Overflow after the handler had synced the pool and lowered
\* stake_amount in its local copies
C11_UnstakeWitness ==
    /\ program = "staking" /\ lastOp.op = "Unstake" /\ lastOp.err = "Overflow"
    /\ lastOp.pre_pool.total_staked < lastOp.amount
    /\ lastOp.pre_info[lastOp.acct].stake_amount >= lastOp.amount
    /\ StakingUnchanged

-----------------------------------------------------------------------------
(* Checked arithmetic *)

\* the lending handlers that call update_interest, once they have got that far
SettlesInterest ==
    /\ program = "lending"
    /\ lastOp.op \in {"Deposit", "Withdraw", "Borrow", "Repay"}
    /\ lastOp.pre_info[lastOp.acct] # NoData
    /\ lastOp.op = "Borrow" => lastOp.fee_wallet = FEE_WALLET

\* the signed elapsed time of the call is negative: it has no u64 value
ElapsedDoesNotFit ==
    /\ SettlesInterest
    /\ lastOp.at < lastOp.pre_info[lastOp.acct].last_update_time

\* C12: an arithmetic result that does not fit its integer type makes the call fail with
\* an overflow error; here the conversion of the signed elapsed time to u64 in
\* update_interest.
C12_CheckedArithmetic == ElapsedDoesNotFit => lastOp.err = "Overflow"

\* a call accepted although its elapsed time was converted by wrapping
C12_WrappedElapsedAccepted ==
    /\ ElapsedDoesNotFit
    /\ lastOp.err = Ok
    /\ lastOp.pre_pool.is_initialized
    /\ lendingInfo[lastOp.acct].last_update_time = lastOp.at

-----------------------------------------------------------------------------
(* Non-monotonic clock *)

\* a staking call on an initialized pool whose clock value is earlier than the pool's
\* last synchronized time
StakingClockWentBack ==
    /\ program = "staking"
    /\ lastOp.op \in {"Stake", "Unstake", "ClaimReward", "UpdatePool"}
    /\ lastOp.pre_pool.is_initialized
    /\ lastOp.at < lastOp.pre_pool.last_update_time

\* C13: a call whose clock value is earlier than the last synchronized time is rejected
\* or treated as elapsed = 0: last_update_time does not decrease and nothing is accrued.
C13_ClockDefence ==
    StakingClockWentBack =>
        \/ lastOp.err # Ok
        \/ /\ stakePool.last_update_time >= lastOp.pre_pool.last_update_time
           /\ stakePool.reward_per_token_stored = lastOp.pre_pool.reward_per_token_stored

\* an accepted call that moved the pool's last_update_time backwards
C13_SyncedBackwards ==
    /\ StakingClockWentBack
    /\ lastOp.err = Ok
    /\ stakePool.last_update_time = lastOp.at
    /\ stakePool.last_update_time < lastOp.pre_pool.last_update_time

-----------------------------------------------------------------------------
(* Treasury check *)

\* the last call was a fee-bearing one and named a fee recipient other than FEE_WALLET
WrongFeeWallet ==
    /\ lastOp.op \in {"Borrow", "ClaimReward"}
    /\ lastOp.fee_wallet # FEE_WALLET

\* the position as the rejected handler left its local copy
RejectedLocalInfo ==
    IF lastOp.op = "ClaimReward"
    THEN process_claim_reward(lastOp.pre_pool, lastOp.pre_info[lastOp.acct],
                              lastOp.fee_wallet, lastOp.at).info
    ELSE process_borrow(lastOp.pre_pool, lastOp.pre_info[lastOp.acct],
                        lastOp.fee_wallet, lastOp.amount, lastOp.at).info

\* C14: Borrow and ClaimReward called with a fee recipient other than FEE_WALLET fail
\* with InvalidArgument before any settlement, transfer or write: pool and position are
\* unchanged and nothing is paid out.
C14_FailClosedTreasury ==
    WrongFeeWallet =>
        /\ lastOp.err = "InvalidArgument"
        /\ lastOp.net = 0 /\ lastOp.fee = 0
        /\ RejectedLocalInfo = lastOp.pre_info[lastOp.acct]
        /\ program = "staking" => StakingUnchanged
        /\ program = "lending" => LendingUnchanged

C14_Witness ==  \* ClaimReward with a wrong fee wallet on a position with reward to settle
    /\ WrongFeeWallet /\ lastOp.op = "ClaimReward"
    /\ lastOp.pre_info[lastOp.acct] # NoData
    /\ LET s == SyncAndSettle(lastOp.pre_pool, lastOp.pre_info[lastOp.acct], lastOp.at)
       IN  s.err = Ok /\ s.info.rewards_earned > 0
    /\ lastOp.err = "InvalidArgument"
    /\ StakingUnchanged

C14_BorrowWitness ==  \* Borrow with a wrong fee wallet that the pool and ratio would allow
    /\ WrongFeeWallet /\ lastOp.op = "Borrow"
    /\ lastOp.pre_info[lastOp.acct] # NoData
    /\ process_borrow(lastOp.pre_pool, lastOp.pre_info[lastOp.acct], FEE_WALLET,
                      lastOp.amount, lastOp.at).err = Ok
    /\ lastOp.err = "InvalidArgument"
    /\ LendingUnchanged

-----------------------------------------------------------------------------
(* Authorization *)

\* the last call moves value of an existing position and was made by a participant
\* other than the owner the position records
CallByNonOwner ==
    /\ lastOp.op \in {"Withdraw", "Borrow", "Repay", "Unstake", "ClaimReward"}
    /\ lastOp.pre_info[lastOp.acct] # NoData
    /\ lastOp.caller # lastOp.pre_info[lastOp.acct].owner

\* C15: Withdraw, Borrow, Repay, Unstake and ClaimReward on a position succeed only for
\* the position's recorded owner; a call by anyone else fails and changes no state.
C15_Authorization ==
    CallByNonOwner =>
        /\ lastOp.err # Ok
        /\ program = "staking" => StakingUnchanged
        /\ program = "lending" => LendingUnchanged

\* a reward claimed from another participant's position
C15_ForeignClaim ==
    /\ CallByNonOwner /\ lastOp.op = "ClaimReward"
    /\ lastOp.pre_pool.is_initialized
    /\ lastOp.err = Ok /\ lastOp.net > 0
    /\ stakeInfo[lastOp.acct].rewards_earned = 0

\* a deposit withdrawn from another participant's position
C15_ForeignWithdraw ==
    /\ CallByNonOwner /\ lastOp.op = "Withdraw"
    /\ lastOp.pre_pool.is_initialized
    /\ lastOp.err = Ok /\ lastOp.net = lastOp.amount
    /\ lendingInfo[lastOp.acct].deposited_amount
          = lastOp.pre_info[lastOp.acct].deposited_amount - lastOp.amount

-----------------------------------------------------------------------------
(* Liquidation *)

\* I3 for a position under a pool's collateral ratio
Healthy(pool, u) == u.deposited_amount * 10000 >= u.borrowed_amount * pool.collateral_ratio

\* the last call was an accepted LiquidatePosition on an existing position
Liquidated ==
    /\ program = "lending" /\ lastOp.op = "LiquidatePosition" /\ lastOp.err = Ok
    /\ lastOp.pre_info[lastOp.acct] # NoData

\* C16: LiquidatePosition on a position that violates I3 reduces the position's
\* borrowed_amount and the pool's total_borrows and leaves the position Healthy; on a
\* Healthy position it changes nothing.
C16_Liquidation ==
    Liquidated =>
        LET before == lastOp.pre_info[lastOp.acct]
            after == lendingInfo[lastOp.acct]
        IN  IF Healthy(lastOp.pre_pool, before)
            THEN after = before
            ELSE /\ after.borrowed_amount < before.borrowed_amount
                 /\ lendingPool.total_borrows < lastOp.pre_pool.total_borrows
                 /\ Healthy(lendingPool, after)

\* an accepted LiquidatePosition that left a Liquidatable position as it was
C16_StillLiquidatable ==
    /\ Liquidated
    /\ lastOp.pre_pool.is_initialized
    /\ ~Healthy(lastOp.pre_pool, lastOp.pre_info[lastOp.acct])
    /\ ~Healthy(lendingPool, lendingInfo[lastOp.acct])
    /\ LendingUnchanged

\* an accepted LiquidatePosition on a Healthy position with a loan
C16_HealthyUntouched ==
    /\ Liquidated
    /\ lastOp.pre_info[lastOp.acct].borrowed_amount > 0
    /\ Healthy(lastOp.pre_pool, lastOp.pre_info[lastOp.acct])
    /\ LendingUnchanged

-----------------------------------------------------------------------------
(* Initialize *)

\* the pool record the first Initialize at time t writes
InitializedPool(t) ==
    IF program = "staking"
    THEN [is_initialized |-> TRUE, total_staked |-> 0, reward_rate |-> 100,
          last_update_time |-> t, reward_per_token_stored |-> BigOf(0)]
    ELSE [is_initialized |-> TRUE, total_deposits |-> 0, total_borrows |-> 0,
          last_update_time |-> t, lending_rate |-> 500, borrowing_rate |-> 1000,
          collateral_ratio |-> 15000]

PoolNow == IF program = "staking" THEN stakePool ELSE lendingPool

\* C17: the first Initialize on a pool sets is_initialized, the totals to 0,
\* last_update_time to now and the default rates; every later Initialize fails with
\* AlreadyInUse and leaves the pool and the positions unchanged.
C17_InitializeOnce ==
    lastOp.op = "Initialize" =>
        IF lastOp.pre_pool.is_initialized
        THEN /\ lastOp.err = "AlreadyInUse"
             /\ PoolNow = lastOp.pre_pool
             /\ program = "staking" => StakingUnchanged
             /\ program = "lending" => LendingUnchanged
        ELSE /\ lastOp.err = Ok
             /\ PoolNow = InitializedPool(lastOp.at)

C17_Witness ==  \* a later Initialize, rejected after deposits and a loan were recorded
    /\ program = "lending" /\ lastOp.op = "Initialize"
    /\ lastOp.err = "AlreadyInUse"
    /\ lastOp.at > lendingPool.last_update_time
    /\ lendingPool.total_deposits > 0 /\ lendingPool.total_borrows > 0
    /\ lendingPool.is_initialized

C17_FirstWitness ==  \* the first Initialize of a staking pool, at a clock value above 0
    /\ program = "staking" /\ lastOp.op = "Initialize" /\ lastOp.err = Ok
    /\ ~lastOp.pre_pool.is_initialized
    /\ lastOp.at > 0
    /\ stakePool = InitializedPool(lastOp.at)

-----------------------------------------------------------------------------
(* Request decoding *)

\* a call has been made and lastOp describes it
CallMade == lastOp.op # "none" \/ lastOp.err # Ok

\* the operation table as the specification states it, one table for both programs;
\* "none" where the byte is no operation of the program
StatedOperation(byte) ==
    CASE byte = 0 -> "Initialize"
      [] byte = 1 -> IF program = "staking" THEN "Stake" ELSE "Deposit"
      [] byte = 2 -> IF program = "staking" THEN "Unstake" ELSE "Withdraw"
      [] byte = 3 -> IF program = "lending" THEN "Borrow" ELSE "none"
      [] byte = 4 -> IF program = "lending" THEN "Repay" ELSE "none"
      [] byte = 5 -> IF program = "lending" THEN "AddCollateral" ELSE "none"
      [] byte = 6 -> IF program = "lending" THEN "WithdrawCollateral" ELSE "none"
      [] byte = 7 -> IF program = "lending" THEN "LiquidatePosition" ELSE "none"
      [] byte = 8 -> IF program = "staking" THEN "ClaimReward" ELSE "none"
      [] OTHER -> "none"

\* the operation table with the staking program's own numbering
ProgramOperation(byte) ==
    IF program = "staking"
    THEN CASE byte = 0 -> "Initialize"
           [] byte = 1 -> "Stake"
           [] byte = 2 -> "Unstake"
           [] byte = 3 -> "ClaimReward"
           [] byte = 4 -> "UpdatePool"
           [] OTHER -> "none"
    ELSE IF byte \in 0 .. 7 THEN StatedOperation(byte) ELSE "none"

\* the call was decoded as operation: that operation ran, with the amount of the
\* payload, and a byte without operation was rejected with no change of state
DecodedAs(operation) ==
    /\ lastOp.op = operation
    /\ lastOp.op = "none" =>
          /\ lastOp.err = "InvalidInstructionData"
          /\ program = "staking" => StakingUnchanged
          /\ program = "lending" => LendingUnchanged
    /\ (lastOp.op = "Deposit" /\ lastOp.err = Ok) =>
          lendingPool.total_deposits = lastOp.pre_pool.total_deposits + lastOp.amount
    /\ (lastOp.op = "Stake" /\ lastOp.err = Ok) =>
          stakePool.total_staked = lastOp.pre_pool.total_staked + lastOp.amount

\* C18 as stated: the first byte selects the operation by the table 0=Initialize,
\* 1=Deposit/Stake, 2=Withdraw/Unstake, 3=Borrow, 4=Repay, 5=AddCollateral,
\* 6=WithdrawCollateral, 7=Liquidate, 8=ClaimReward; any other byte is rejected.
C18_DecodingAsStated == CallMade => DecodedAs(StatedOperation(lastOp.opcode))

\* C18: the first byte selects the operation, lending by 0..7 as stated, staking by
\* 0=Initialize, 1=Stake, 2=Unstake, 3=ClaimReward, 4=UpdatePool; the amount is the
\* little-endian value of the next 8 bytes; any other byte fails with
\* InvalidInstructionData and changes no state.
C18_Decoding == CallMade => DecodedAs(ProgramOperation(lastOp.opcode))

C18_Witness ==  \* byte 8 sent to a staking pool with stake in it: rejected
    /\ program = "staking" /\ lastOp.opcode = 8
    /\ lastOp.err = "InvalidInstructionData"
    /\ stakePool.total_staked > 0
    /\ StakingUnchanged

C18_ClaimByByte3 ==  \* byte 3 sent to a staking pool runs ClaimReward
    /\ program = "staking" /\ lastOp.opcode = 3
    /\ lastOp.op = "ClaimReward" /\ lastOp.err = Ok /\ lastOp.net > 0

C18_AmountWitness ==  \* a Deposit whose amount takes two bytes of the payload
    /\ lastOp.op = "Deposit" /\ lastOp.err = Ok
    /\ InstructionData(lastOp.opcode, lastOp.amount)[3] # 0
    /\ lendingPool.total_deposits = lastOp.pre_pool.total_deposits + lastOp.amount

-----------------------------------------------------------------------------
(* Error values *)

\* the pool cannot lend the amount of the call
PoolLiquidityShort ==
    lastOp.amount > lastOp.pre_pool.total_deposits - lastOp.pre_pool.total_borrows

\* the position holds less than the amount of the call
PositionBalanceShort ==
    /\ lastOp.pre_info[lastOp.acct] # NoData
    /\ lastOp.amount > lastOp.pre_info[lastOp.acct].deposited_amount

\* C19: every violated precondition is reported with its own error value: the value
\* InsufficientLiquidity stands for the pool's missing liquidity in Borrow and for
\* nothing else, and a call by a participant who does not own the position is not
\* reported as success.
C19_DistinctErrors ==
    /\ lastOp.err = "InsufficientLiquidity" => (lastOp.op = "Borrow" /\ PoolLiquidityShort)
    /\ CallByNonOwner => lastOp.err # Ok

\* a Withdraw above the position's balance reported with the value of Borrow's
\* liquidity failure, on a pool that has the liquidity
C19_WithdrawReportsLiquidity ==
    /\ program = "lending" /\ lastOp.op = "Withdraw"
    /\ lastOp.pre_pool.is_initialized
    /\ lastOp.caller = lastOp.acct
    /\ PositionBalanceShort /\ ~PoolLiquidityShort
    /\ lastOp.err = "InsufficientLiquidity"

\* a Borrow above the pool's liquidity reported with the same value
C19_BorrowReportsLiquidity ==
    /\ program = "lending" /\ lastOp.op = "Borrow"
    /\ lastOp.pre_pool.is_initialized
    /\ PoolLiquidityShort /\ ~PositionBalanceShort
    /\ lastOp.err = "InsufficientLiquidity"

-----------------------------------------------------------------------------
(* Borrow *)

\* the effect of an accepted Borrow: the debt of the position and of the pool grow by the
\* gross amount, the deposits stay
BorrowEffect ==
    (program = "lending" /\ lastOp.op = "Borrow" /\ lastOp.err = Ok) =>
        LET before == lastOp.pre_info[lastOp.acct]
            after == lendingInfo[lastOp.acct]
        IN  /\ after.borrowed_amount = before.borrowed_amount + lastOp.amount
            /\ lendingPool.total_borrows = lastOp.pre_pool.total_borrows + lastOp.amount
            /\ lastOp.net + lastOp.fee = lastOp.amount
            /\ after.deposited_amount = before.deposited_amount
            /\ lendingPool.total_deposits = lastOp.pre_pool.total_deposits

ReachesLiquidityTest ==
    /\ program = "lending" /\ lastOp.op = "Borrow"
    /\ lastOp.fee_wallet = FEE_WALLET
    /\ lastOp.pre_info[lastOp.acct] # NoData
    /\ update_interest(lastOp.pre_pool, lastOp.pre_info[lastOp.acct], lastOp.at).err = Ok

C20_ShortWitness ==  \* rejected for liquidity although the collateral would do
    /\ ReachesLiquidityTest /\ PoolLiquidityShort
    /\ lastOp.pre_pool.is_initialized
    /\ check_collateral_ratio(lastOp.pre_pool,
                              lastOp.pre_info[lastOp.acct].deposited_amount,
                              lastOp.pre_info[lastOp.acct].borrowed_amount + lastOp.amount)
    /\ lastOp.err = "InsufficientLiquidity" /\ LendingUnchanged

C20_OverflowWitness ==  \* total_borrows above total_deposits: the subtraction fails
    /\ ReachesLiquidityTest
    /\ lastOp.pre_pool.total_deposits < lastOp.pre_pool.total_borrows
    /\ lastOp.err = "Overflow" /\ LendingUnchanged

-----------------------------------------------------------------------------
(* Withdraw *)

\* the last call was a Withdraw on an existing position
WithdrawCalled ==
    /\ program = "lending" /\ lastOp.op = "Withdraw"
    /\ lastOp.pre_info[lastOp.acct] # NoData

\* the deposit that would remain breaks I3 against the position's loan
RemainderBreaksRatio ==
    LET before == lastOp.pre_info[lastOp.acct]
    IN  /\ lastOp.amount <= before.deposited_amount
        /\ (before.deposited_amount - lastOp.amount) * 10000
              < before.borrowed_amount * lastOp.pre_pool.collateral_ratio

\* C21: a Withdraw of more than deposited_amount is rejected, a Withdraw whose remaining
\* deposit would break I3 is rejected with InsufficientCollateral, both without state
\* change; an accepted Withdraw lowers deposited_amount and total_deposits by amount,
\* charges no fee and leaves borrowed_amount and total_borrows unchanged.
C21_Withdraw ==
    WithdrawCalled =>
        LET before == lastOp.pre_info[lastOp.acct]
            after == lendingInfo[lastOp.acct]
        IN  /\ lastOp.amount > before.deposited_amount =>
                  lastOp.err # Ok /\ LendingUnchanged
            /\ RemainderBreaksRatio =>
                  lastOp.err = "InsufficientCollateral" /\ LendingUnchanged
            /\ lastOp.err = Ok =>
                  /\ after.deposited_amount = before.deposited_amount - lastOp.amount
                  /\ lendingPool.total_deposits
                        = lastOp.pre_pool.total_deposits - lastOp.amount
                  /\ lastOp.net = lastOp.amount /\ lastOp.fee = 0
                  /\ after.borrowed_amount = before.borrowed_amount
                  /\ lendingPool.total_borrows = lastOp.pre_pool.total_borrows

C21_Witness ==  \* the whole deposit withdrawn under a loan: rejected
    /\ WithdrawCalled /\ RemainderBreaksRatio
    /\ lastOp.pre_pool.is_initialized
    /\ lastOp.pre_info[lastOp.acct].borrowed_amount > 0
    /\ lastOp.err = "InsufficientCollateral" /\ LendingUnchanged

C21_AcceptedWitness ==  \* an accepted Withdraw under a loan
    /\ WithdrawCalled /\ lastOp.err = Ok
    /\ lastOp.pre_pool.is_initialized
    /\ lendingInfo[lastOp.acct].borrowed_amount > 0
    /\ lendingPool.total_deposits = lastOp.pre_pool.total_deposits - lastOp.amount

C21_OverdrawWitness ==  \* more than the position holds: rejected
    /\ WithdrawCalled /\ lastOp.amount > lastOp.pre_info[lastOp.acct].deposited_amount
    /\ lastOp.err = "InsufficientLiquidity" /\ LendingUnchanged

-----------------------------------------------------------------------------
(* Deposit *)

\* the last call was a Deposit on an initialized pool
DepositCalled ==
    program = "lending" /\ lastOp.op = "Deposit" /\ lastOp.pre_pool.is_initialized

\* the position the Deposit starts from: the stored one, or the one it creates
DepositStart ==
    IF lastOp.pre_info[lastOp.acct] # NoData THEN lastOp.pre_info[lastOp.acct]
    ELSE [owner |-> lastOp.caller, deposited_amount |-> 0, borrowed_amount |-> 0,
          collateral_amount |-> 0, last_update_time |-> lastOp.at,
          cumulative_deposit_interest |-> 0, cumulative_borrow_interest |-> 0]

\* C22: a Deposit on an initialized pool is accepted whatever the position's state; it
\* settles interest, raises deposited_amount and total_deposits by amount and leaves
\* borrowed_amount, collateral_amount and total_borrows unchanged; the first Deposit
\* creates the position with amounts and interest counters 0 and last_update_time = now.
C22_DepositAlwaysLegal ==
    DepositCalled =>
        LET start == DepositStart
            after == lendingInfo[lastOp.acct]
        IN  /\ lastOp.err = Ok
            /\ after.last_update_time = lastOp.at
            /\ after.deposited_amount = start.deposited_amount + lastOp.amount
            /\ lendingPool.total_deposits = lastOp.pre_pool.total_deposits + lastOp.amount
            /\ after.borrowed_amount = start.borrowed_amount
            /\ after.collateral_amount = start.collateral_amount
            /\ lendingPool.total_borrows = lastOp.pre_pool.total_borrows
            /\ lastOp.pre_info[lastOp.acct] = NoData =>
                  after = [start EXCEPT !.deposited_amount = lastOp.amount]

\* a Deposit rejected with Overflow by the interest settlement of the position, the
\* interest itself being far below 2^64
C22_DepositRejected ==
    /\ DepositCalled
    /\ lastOp.pre_info[lastOp.acct] # NoData
    /\ lastOp.pre_info[lastOp.acct].borrowed_amount = 0
    /\ lastOp.at > lastOp.pre_info[lastOp.acct].last_update_time
    /\ lastOp.err = "Overflow"
    /\ BigLeq(DivYearBps(BigMul(BigMul(BigOf(lastOp.pre_info[lastOp.acct].deposited_amount),
                                       BigOf(lastOp.pre_pool.lending_rate)),
                                BigOf(lastOp.at
                                        - lastOp.pre_info[lastOp.acct].last_update_time))),
              BigOf(MaxReward))

(* Zero principal sync *)

\* a successful call that ran update_pool on a pool with nothing staked
SyncedAtZero ==
    /\ program = "staking" /\ lastOp.err = Ok
    /\ lastOp.op \in {"Stake", "Unstake", "ClaimReward", "UpdatePool"}
    /\ lastOp.pre_pool.total_staked = 0

\* rewards_earned of the call's position before the call; a position the call creates
\* starts at 0
EarnedBefore ==
    IF lastOp.pre_info[lastOp.acct] # NoData
    THEN lastOp.pre_info[lastOp.acct].rewards_earned ELSE 0

\* stake_amount of the call's position before the call
StakeBefore ==
    IF lastOp.pre_info[lastOp.acct] # NoData
    THEN lastOp.pre_info[lastOp.acct].stake_amount ELSE 0

\* reward_per_token for the time from since to t at the pool's rate and total
AccrualSince(pool, since, t) ==
    BigDiv(BigMul(BigMul(BigOf(t - since), BigOf(pool.reward_rate)), REWARD_SCALE),
           BigOf(pool.total_staked))

\* C23: a successful staking call made at clock value now on a pool whose total_staked
\* is 0 leaves reward_per_token_stored, reward_rate and is_initialized as they were and
\* sets last_update_time to now; a position that held no stake before the call is
\* credited nothing by it, wherever its checkpoint stood; and when the call was a Stake,
\* a later sync of the pool adds to reward_per_token_stored the accrual of the time
\* since that Stake only, nothing for the time before it in which nothing was staked.
C23_ZeroPrincipalSync ==
    SyncedAtZero =>
        /\ stakePool.reward_per_token_stored = lastOp.pre_pool.reward_per_token_stored
        /\ stakePool.last_update_time = lastOp.at
        /\ stakePool.reward_rate = lastOp.pre_pool.reward_rate
        /\ stakePool.is_initialized = lastOp.pre_pool.is_initialized
        /\ lastOp.op # "ClaimReward" /\ lastOp.acct \in Accounts /\ StakeBefore = 0 =>
              stakeInfo[lastOp.acct].rewards_earned = EarnedBefore
        /\ lastOp.op = "Stake" =>
              \A t \in StakingTimes :
                 t > lastOp.at =>
                    update_pool(stakePool, t).pool.reward_per_token_stored
                       = BigAdd(lastOp.pre_pool.reward_per_token_stored,
                                AccrualSince(stakePool, lastOp.at, t))

\* a Stake into an initialized pool that had stood empty since an earlier clock value
C23_Witness ==
    /\ SyncedAtZero /\ lastOp.op = "Stake" /\ lastOp.pre_pool.is_initialized
    /\ lastOp.pre_pool.last_update_time < lastOp.at
    /\ lastOp.at < 604800
    /\ stakePool.total_staked > 0

\* a sync of a pool that everybody has left, its accumulator above zero
C23_EmptiedWitness ==
    /\ SyncedAtZero /\ lastOp.pre_pool.is_initialized
    /\ lastOp.pre_pool.reward_per_token_stored # <<>>

(* Call ordering *)

\* a successful call of one of the operations that settle a position
AccrualCall ==
    /\ lastOp.err = Ok
    /\ lastOp.op \in {"Deposit", "Withdraw", "Borrow", "Repay",
                      "Stake", "Unstake", "ClaimReward"}

\* a call that a test of the position's or the pool's balances rejected
RejectedByPrecondition ==
    lastOp.err \in {"StakeLocked", "InsufficientStakeBalance", "InsufficientLiquidity",
                    "InsufficientCollateral"}

\* the position of the call as the handler read it
PositionRead ==
    IF lastOp.pre_info[lastOp.acct] # NoData THEN lastOp.pre_info[lastOp.acct]
    ELSE IF program = "staking" THEN NewStakeInfo(lastOp.caller, lastOp.at)
    ELSE NewLendingInfo(lastOp.caller, lastOp.at)

\* update_pool and update_rewards, or update_interest, return Ok on what the call read
\* (a reward above MaxReward is one the program accepts)
SettlementSucceeds ==
    IF program = "staking"
    THEN SyncAndSettle(lastOp.pre_pool, PositionRead, lastOp.at).err \in {Ok, OutOfRange}
    ELSE update_interest(lastOp.pre_pool, PositionRead, lastOp.at).err \in {Ok, OutOfRange}

\* C24: after every successful Deposit, Withdraw, Borrow, Repay, Stake, Unstake or
\* ClaimReward made at clock value now the pool is synchronized to now (its
\* last_update_time is now) and the position is settled against the synchronized pool
\* (staking: reward_per_token_paid is the pool's reward_per_token_stored; lending: the
\* position's last_update_time is now); a call rejected by a balance precondition is
\* one whose synchronization and settlement succeeded; and after a successful Borrow
\* or Withdraw the position's balances as committed pass the collateral check.
C24_CallOrdering ==
    /\ AccrualCall =>
          /\ PoolNow.last_update_time = lastOp.at
          /\ program = "staking" =>
                stakeInfo[lastOp.acct].reward_per_token_paid
                   = stakePool.reward_per_token_stored
          /\ program = "lending" => lendingInfo[lastOp.acct].last_update_time = lastOp.at
          /\ lastOp.op \in {"Borrow", "Withdraw"} =>
                check_collateral_ratio(lendingPool,
                                       lendingInfo[lastOp.acct].deposited_amount,
                                       lendingInfo[lastOp.acct].borrowed_amount)
    /\ RejectedByPrecondition /\ lastOp.pre_info[lastOp.acct] # NoData
          => SettlementSucceeds

\* a successful Deposit into an initialized lending pool at a clock value after the
\* pool's last_update_time: the position is settled to now, the pool's
\* last_update_time is not
C24_PoolNotSynced ==
    /\ program = "lending" /\ AccrualCall /\ lastOp.op = "Deposit"
    /\ lastOp.pre_pool.is_initialized
    /\ lastOp.pre_pool.last_update_time < lastOp.at
    /\ lendingInfo[lastOp.acct].last_update_time = lastOp.at
    /\ lendingPool.last_update_time = lastOp.pre_pool.last_update_time

(* Lending interest *)

\* a lending call that gets as far as update_interest, at a clock value after the
\* position's last_update_time
SettlesForward ==
    /\ program = "lending"
    /\ lastOp.op \in {"Deposit", "Withdraw", "Borrow", "Repay"}
    /\ lastOp.op # "Deposit" => lastOp.pre_info[lastOp.acct] # NoData
    /\ lastOp.op = "Borrow" => lastOp.fee_wallet = FEE_WALLET
    /\ lastOp.at > PositionRead.last_update_time

\* floor(amount * rate * elapsed / (365*24*3600*10000)) over the integers
SimpleInterest(amount, rate, elapsed) ==
    BigToNat(DivYearBps(BigMul(BigMul(BigOf(amount), BigOf(rate)), BigOf(elapsed))))

\* the position settled as stated
SettledAsStated(pool, user, current_time) ==
    [user EXCEPT
       !.cumulative_deposit_interest =
          @ + SimpleInterest(user.deposited_amount, pool.lending_rate,
                             current_time - user.last_update_time),
       !.cumulative_borrow_interest =
          @ + SimpleInterest(user.borrowed_amount, pool.borrowing_rate,
                             current_time - user.last_update_time),
       !.last_update_time = current_time]

\* C25: the settlement of a lending call made at clock value now, with elapsed = now -
\* position.last_update_time > 0, adds floor(deposited_amount * lending_rate * elapsed
\* / (365*24*3600*10000)) to cumulative_deposit_interest and floor(borrowed_amount *
\* borrowing_rate * elapsed / (365*24*3600*10000)) to cumulative_borrow_interest, sets
\* the position's last_update_time to now and changes nothing else of the position;
\* an accepted call commits these two counters and that time.
C25_LendingInterest ==
    SettlesForward =>
        /\ update_interest(lastOp.pre_pool, PositionRead, lastOp.at).err = Ok
        /\ update_interest(lastOp.pre_pool, PositionRead, lastOp.at).info
              = SettledAsStated(lastOp.pre_pool, PositionRead, lastOp.at)
        /\ lastOp.err = Ok =>
              /\ lendingInfo[lastOp.acct].cumulative_deposit_interest
                    = SettledAsStated(lastOp.pre_pool, PositionRead,
                                      lastOp.at).cumulative_deposit_interest
              /\ lendingInfo[lastOp.acct].cumulative_borrow_interest
                    = SettledAsStated(lastOp.pre_pool, PositionRead,
                                      lastOp.at).cumulative_borrow_interest
              /\ lendingInfo[lastOp.acct].last_update_time = lastOp.at

\* a Withdraw whose settlement returns Overflow although the interest to add is small
C25_InterestNotAdded ==
    /\ SettlesForward /\ lastOp.op = "Withdraw" /\ lastOp.pre_pool.is_initialized
    /\ update_interest(lastOp.pre_pool, PositionRead, lastOp.at).err = "Overflow"
    /\ lastOp.err = "Overflow"
    /\ SimpleInterest(PositionRead.deposited_amount, lastOp.pre_pool.lending_rate,
                      lastOp.at - PositionRead.last_update_time) \in 1 .. MaxReward
    /\ PositionRead.borrowed_amount = 0

\* an accepted call that added interest above zero to both counters
C25_Witness ==
    /\ SettlesForward /\ lastOp.err = Ok /\ lastOp.pre_pool.is_initialized
    /\ lendingInfo[lastOp.acct].cumulative_deposit_interest
          > PositionRead.cumulative_deposit_interest
    /\ lendingInfo[lastOp.acct].cumulative_borrow_interest
          > PositionRead.cumulative_borrow_interest

(* Staking accrual *)

\* a staking call that gets as far as update_pool, on a position that exists
StakingSettles ==
    /\ program = "staking"
    /\ lastOp.op \in {"Stake", "Unstake", "ClaimReward"}
    /\ lastOp.pre_info[lastOp.acct] # NoData
    /\ lastOp.op = "ClaimReward" => lastOp.fee_wallet = FEE_WALLET
    /\ lastOp.op = "Unstake" =>
          /\ ~StakeIsLocked(PositionRead, lastOp.at)
          /\ lastOp.amount <= PositionRead.stake_amount

\* the pool synced as stated, for total_staked > 0 and current_time after last_update_time
SyncedAsStated(pool, current_time) ==
    [pool EXCEPT
       !.reward_per_token_stored =
          BigAdd(@, AccrualSince(pool, pool.last_update_time, current_time)),
       !.last_update_time = current_time]

\* floor(stake_amount * (reward_per_token_stored - reward_per_token_paid) / 10^12)
OwedAsStated(pool, user) ==
    BigDiv(BigMul(BigOf(user.stake_amount),
                  BigSub(pool.reward_per_token_stored, user.reward_per_token_paid)),
           REWARD_SCALE)

\* the pool of the call after update_pool
PoolSynced == update_pool(lastOp.pre_pool, lastOp.at).pool

\* C26: in a staking call made at clock value now, the sync of a pool with
\* total_staked > 0 and elapsed = now - last_update_time > 0 adds exactly
\* floor(elapsed * reward_rate * 10^12 / total_staked) to reward_per_token_stored and
\* changes nothing else but last_update_time; a settlement that returns Ok adds exactly
\* floor(stake_amount * (reward_per_token_stored - reward_per_token_paid) / 10^12) to
\* rewards_earned, sets reward_per_token_paid to reward_per_token_stored and changes
\* nothing else of the position.
C26_StakingAccrual ==
    StakingSettles =>
        /\ lastOp.pre_pool.total_staked > 0 /\ lastOp.at > lastOp.pre_pool.last_update_time
              => /\ update_pool(lastOp.pre_pool, lastOp.at).err = Ok
                 /\ PoolSynced = SyncedAsStated(lastOp.pre_pool, lastOp.at)
        /\ BigLeq(PositionRead.reward_per_token_paid, PoolSynced.reward_per_token_stored)
              /\ update_rewards(PoolSynced, PositionRead).err = Ok
              => /\ BigOf(update_rewards(PoolSynced, PositionRead).info.rewards_earned)
                       = BigAdd(BigOf(PositionRead.rewards_earned),
                                OwedAsStated(PoolSynced, PositionRead))
                 /\ update_rewards(PoolSynced, PositionRead).info
                       = [PositionRead EXCEPT
                            !.rewards_earned =
                               update_rewards(PoolSynced, PositionRead).info.rewards_earned,
                            !.reward_per_token_paid = PoolSynced.reward_per_token_stored]

\* a ClaimReward whose settlement returns Ok and adds less than the stated amount: the
\* stated amount does not fit 64 bits
C26_TruncatedReward ==
    /\ StakingSettles /\ lastOp.op = "ClaimReward" /\ lastOp.err = Ok
    /\ lastOp.pre_pool.is_initialized
    /\ ~BigLeq(OwedAsStated(PoolSynced, PositionRead), U64_MAX)
    /\ lastOp.net + lastOp.fee < MaxReward

\* an accepted call whose sync raised the accumulator and whose settlement added a
\* reward above zero
C26_Witness ==
    /\ StakingSettles /\ lastOp.err = Ok /\ lastOp.pre_pool.is_initialized
    /\ lastOp.pre_pool.total_staked > 0 /\ lastOp.at > lastOp.pre_pool.last_update_time
    /\ stakePool.reward_per_token_stored # lastOp.pre_pool.reward_per_token_stored
    /\ OwedAsStated(PoolSynced, PositionRead) # <<>>
    /\ BigLeq(OwedAsStated(PoolSynced, PositionRead), U64_MAX)

(* Widened intermediates *)

\* amount * rate * elapsed over the integers
InterestProduct(amount, rate, elapsed) ==
    BigMul(BigMul(BigOf(amount), BigOf(rate)), BigOf(elapsed))

\* the two interests of the call's settlement, and the fee of the call, fit 64 bits
LendingResultsFit ==
    /\ BigLeq(DivYearBps(InterestProduct(PositionRead.deposited_amount,
                                         lastOp.pre_pool.lending_rate,
                                         lastOp.at - PositionRead.last_update_time)),
              U64_MAX)
    /\ BigLeq(DivYearBps(InterestProduct(PositionRead.borrowed_amount,
                                         lastOp.pre_pool.borrowing_rate,
                                         lastOp.at - PositionRead.last_update_time)),
              U64_MAX)
    /\ BigLeq(BigDivSmall(BigMul(BigOf(lastOp.amount), BigOf(LENDING_SERVICE_FEE_BPS)),
                          10000),
              U64_MAX)

\* the accrual of the call's sync fits 128 bits and the reward of its settlement 64
StakingResultsFit ==
    /\ BigLeq(PoolSynced.reward_per_token_stored, U128_MAX)
    /\ BigLeq(PositionRead.reward_per_token_paid, PoolSynced.reward_per_token_stored)
    /\ BigLeq(BigAdd(BigOf(PositionRead.rewards_earned),
                     OwedAsStated(PoolSynced, PositionRead)), U64_MAX)

\* C27: a call whose interests, reward, accrual and fee all fit their 64 (accumulator:
\* 128) bits does not return Overflow from its settlement or its fee computation: no
\* product inside them fails for exceeding 64 bits on the way to a result that fits.
C27_WidenedIntermediates ==
    /\ SettlesForward /\ LendingResultsFit =>
          /\ update_interest(lastOp.pre_pool, PositionRead, lastOp.at).err # "Overflow"
          /\ ServiceFee(lastOp.amount, LENDING_SERVICE_FEE_BPS) # <<>>
    /\ StakingSettles /\ StakingResultsFit =>
          /\ SyncAndSettle(lastOp.pre_pool, PositionRead, lastOp.at).err # "Overflow"
          /\ lastOp.op = "ClaimReward" /\ lastOp.err = Ok =>
                ServiceFee(lastOp.net + lastOp.fee, STAKING_SERVICE_FEE_BPS) # <<>>

\* a Repay rejected with Overflow: deposited_amount * lending_rate * elapsed is above
\* 2^64 - 1, the interest it yields is far below
C27_ProductOverflows ==
    /\ SettlesForward /\ LendingResultsFit /\ lastOp.op = "Repay"
    /\ lastOp.pre_pool.is_initialized
    /\ lastOp.err = "Overflow"
    /\ ~BigLeq(InterestProduct(PositionRead.deposited_amount, lastOp.pre_pool.lending_rate,
                               lastOp.at - PositionRead.last_update_time), U64_MAX)

(* Ratio check *)

\* check_collateral_ratio has been evaluated
RatioChecked == ratioCheck.result # "none"

\* C28: for 64-bit deposit, borrow and collateral_ratio values check_collateral_ratio
\* returns true exactly when borrow = 0 or deposit * 10000 >= borrow * collateral_ratio
\* over the integers, and neither product is above 2^128 - 1, so the fallback value 0
\* is never used.
C28_RatioCheck ==
    RatioChecked =>
        /\ ratioCheck.result = "true"
              <=> (\/ ratioCheck.borrow = <<>>
                   \/ BigLeq(BigMul(ratioCheck.borrow, ratioCheck.ratio),
                             BigMul(ratioCheck.deposit, BigOf(10000))))
        /\ BigLeq(BigMul(ratioCheck.deposit, BigOf(10000)), U128_MAX)
        /\ BigLeq(BigMul(ratioCheck.borrow, ratioCheck.ratio), U128_MAX)

\* the largest products: borrow and collateral_ratio both 2^64 - 1, deposit 2^64 - 1
C28_Witness ==
    /\ RatioChecked /\ ratioCheck.borrow = U64_MAX /\ ratioCheck.ratio = U64_MAX
    /\ ratioCheck.deposit = U64_MAX /\ ratioCheck.result = "false"

\* equality of products above 64 bits: the check passes
C28_BoundaryWitness ==
    /\ RatioChecked /\ ratioCheck.borrow = U64_MAX /\ ratioCheck.ratio = BigOf(10000)
    /\ ratioCheck.deposit = U64_MAX /\ ratioCheck.result = "true"

(* Stub operations *)

\* a call of one of the three handlers whose body is Ok(())
StubCalled ==
    /\ program = "lending"
    /\ lastOp.op \in {"AddCollateral", "WithdrawCollateral", "LiquidatePosition"}

C29_LiquidateWitness ==
    /\ StubCalled /\ lastOp.op = "LiquidatePosition"
    /\ lendingInfo[lastOp.acct] # NoData
    /\ lendingInfo[lastOp.acct].borrowed_amount > 0

(* Totals *)

\* the principal a position account holds in one of its fields, 0 for an empty account
StakeOf(a) == IF stakeInfo[a] = NoData THEN 0 ELSE stakeInfo[a].stake_amount
DepositOf(a) == IF lendingInfo[a] = NoData THEN 0 ELSE lendingInfo[a].deposited_amount
BorrowOf(a) == IF lendingInfo[a] = NoData THEN 0 ELSE lendingInfo[a].borrowed_amount

\* C30: in every reachable state of a pool whose first successful call was Initialize,
\* the staking pool's total_staked is the sum of stake_amount over all positions, and
\* the lending pool's total_deposits and total_borrows are the sums of deposited_amount
\* and borrowed_amount over all positions.
C30_TotalsAreSums ==
    initFirst =>
        /\ program = "staking" =>
              stakePool.total_staked = SumOver(Accounts, [a \in Accounts |-> StakeOf(a)])
        /\ program = "lending" =>
              /\ lendingPool.total_deposits
                    = SumOver(Accounts, [a \in Accounts |-> DepositOf(a)])
              /\ lendingPool.total_borrows
                    = SumOver(Accounts, [a \in Accounts |-> BorrowOf(a)])

\* two staking positions with stake, after an Unstake
C30_Witness ==
    /\ initFirst /\ program = "staking" /\ lastOp.op = "Unstake" /\ lastOp.err = Ok
    /\ \A a \in Accounts : StakeOf(a) > 0

\* two lending positions with deposits, one of them owing, after a Repay of a part
C30_LendingWitness ==
    /\ initFirst /\ program = "lending" /\ lastOp.op = "Repay" /\ lastOp.err = Ok
    /\ lastOp.amount > 0
    /\ \E a \in Accounts : BorrowOf(a) > 0
    /\ lendingPool.total_deposits > 0

\* a pool on which a position was opened before Initialize: the totals start over at 0
C30_StakedBeforeInitialize ==
    /\ ~initFirst /\ program = "staking" /\ stakePool.is_initialized
    /\ stakePool.total_staked < SumOver(Accounts, [a \in Accounts |-> StakeOf(a)])

(* Pool solvency *)

\* C31: in every reachable state of an initialized lending pool
\* total_borrows <= total_deposits, so that the subtraction
\* total_deposits - total_borrows in Borrow never fails.
C31_PoolSolvency ==
    (program = "lending" /\ lendingPool.is_initialized) =>
        /\ lendingPool.total_borrows <= lendingPool.total_deposits
        /\ lastOp.op = "Borrow" => lastOp.err # "Overflow"

\* an initialized pool that has lent more than it holds, after a Withdraw by a
\* depositor who owes nothing
C31_LentAboveDeposits ==
    /\ program = "lending" /\ lendingPool.is_initialized
    /\ lastOp.op = "Withdraw" /\ lastOp.err = Ok
    /\ lastOp.pre_info[lastOp.acct].borrowed_amount = 0
    /\ lendingPool.total_borrows > lendingPool.total_deposits

\* a Borrow on an initialized pool that fails in the subtraction
C31_SubtractionFails ==
    /\ program = "lending" /\ lastOp.pre_pool.is_initialized
    /\ lastOp.op = "Borrow" /\ lastOp.err = "Overflow"
    /\ lastOp.pre_pool.total_deposits < lastOp.pre_pool.total_borrows

\* the same bound on pools whose first successful call was Initialize
C31_SolvencyInitFirst ==
    (program = "lending" /\ initFirst) =>
        lendingPool.total_borrows <= lendingPool.total_deposits

\* a pool started by Initialize with a loan outstanding, after a Withdraw by a
\* depositor who owes nothing
C31_InitFirstWitness ==
    /\ program = "lending" /\ initFirst
    /\ lastOp.op = "Withdraw" /\ lastOp.err = Ok
    /\ lastOp.pre_info[lastOp.acct].borrowed_amount = 0
    /\ lendingPool.total_borrows > 0

(* Liquidatable positions *)

\* C32: in every reachable state every position of an initialized lending pool
\* satisfies I3 (deposited_amount * 10000 >= borrowed_amount * collateral_ratio),
\* for any sequence of Deposit, Withdraw, Borrow, Repay and any passage of time.
C32_NeverLiquidatable ==
    (program = "lending" /\ lendingPool.is_initialized) =>
        \A a \in Accounts : lendingInfo[a] # NoData => Healthy(lendingPool, lendingInfo[a])

\* a position of an initialized pool that violates I3
C32_LiquidatablePosition ==
    /\ program = "lending" /\ lendingPool.is_initialized
    /\ lastOp.op \in {"Initialize", "Deposit", "Withdraw", "Borrow", "Repay"}
    /\ \E a \in Accounts :
          /\ lendingInfo[a] # NoData
          /\ lendingInfo[a].borrowed_amount > 0
          /\ ~Healthy(lendingPool, lendingInfo[a])

\* I3 for every position of a pool whose first successful call was Initialize
C32_HealthyInitFirst ==
    (program = "lending" /\ initFirst) =>
        \A a \in Accounts : lendingInfo[a] # NoData => Healthy(lendingPool, lendingInfo[a])

\* a position that owes and has settled borrow interest above zero, on a pool
\* started by Initialize
C32_InitFirstWitness ==
    /\ program = "lending" /\ initFirst
    /\ \E a \in Accounts :
          /\ lendingInfo[a] # NoData
          /\ lendingInfo[a].borrowed_amount > 0
          /\ lendingInfo[a].cumulative_borrow_interest > 0

(* Lock clock *)

\* the last call was a Stake, Unstake or ClaimReward on a position account
PositionCall ==
    /\ program = "staking"
    /\ lastOp.op \in {"Stake", "Unstake", "ClaimReward"}
    /\ lastOp.acct \in Accounts

\* C33: start_time and lock_period of a staking position are set when the position
\* is created by its first Stake (start_time = the time of that call, lock_period =
\* 604800) and are left unchanged by every later Stake, Unstake and ClaimReward; an
\* Unstake is refused as locked exactly while now < start_time + lock_period,
\* whenever the tokens it takes were added.
C33_LockClockFixed ==
    /\ program = "staking" =>
          \A a \in Accounts : stakeInfo[a] # NoData => stakeInfo[a].lock_period = 604800
    /\ PositionCall =>
          LET before == lastOp.pre_info[lastOp.acct]
              after == stakeInfo[lastOp.acct]
          IN  IF before # NoData
              THEN /\ after.start_time = before.start_time
                   /\ after.lock_period = before.lock_period
                   /\ lastOp.op = "Unstake" =>
                         (lastOp.err = "StakeLocked"
                             <=> lastOp.at < before.start_time + 604800)
              ELSE (lastOp.op = "Stake" /\ lastOp.err = Ok) =>
                      after.start_time = lastOp.at

\* a later Stake, accepted after the position's lock has run out: the tokens it adds
\* are unlocked at once
C33_Witness ==
    /\ PositionCall /\ lastOp.op = "Stake" /\ lastOp.err = Ok
    /\ lastOp.pre_info[lastOp.acct] # NoData
    /\ lastOp.at > lastOp.pre_info[lastOp.acct].start_time
    /\ ~StakeIsLocked(stakeInfo[lastOp.acct], lastOp.at)

\* a later Stake inside the lock period, and an Unstake of a position staked twice
C33_LockedWitness ==
    /\ PositionCall /\ lastOp.op = "Stake" /\ lastOp.err = Ok
    /\ lastOp.pre_info[lastOp.acct] # NoData
    /\ lastOp.at > lastOp.pre_info[lastOp.acct].start_time
    /\ StakeIsLocked(stakeInfo[lastOp.acct], lastOp.at)

C33_UnstakeWitness ==
    /\ PositionCall /\ lastOp.op = "Unstake" /\ lastOp.err = Ok
    /\ lastOp.pre_info[lastOp.acct].stake_amount = 1700
    /\ lastOp.pre_info[lastOp.acct].start_time = 0

(* Calls before Initialize *)

\* the last call was made on a pool account whose is_initialized flag was false
BeforeInitialize == ~lastOp.pre_pool.is_initialized

\* C34: on a pool whose is_initialized flag is false, Deposit, Withdraw, Borrow,
\* Repay, Stake, Unstake, ClaimReward and UpdatePool all fail and change no state;
\* only Initialize succeeds.
C34_NothingBeforeInitialize ==
    BeforeInitialize =>
        /\ lastOp.op \in {"Deposit", "Withdraw", "Borrow", "Repay",
                          "Stake", "Unstake", "ClaimReward", "UpdatePool"} =>
              /\ lastOp.err # Ok
              /\ program = "staking" => StakingUnchanged
              /\ program = "lending" => LendingUnchanged
        /\ lastOp.op = "Initialize" => lastOp.err = Ok

\* a Deposit accepted on a pool account that was never initialized
C34_DepositBeforeInitialize ==
    /\ program = "lending" /\ BeforeInitialize
    /\ lastOp.op = "Deposit" /\ lastOp.err = Ok
    /\ lendingInfo[lastOp.acct].deposited_amount = lastOp.amount
    /\ lendingPool.total_deposits = lastOp.pre_pool.total_deposits + lastOp.amount

\* a Borrow accepted on a pool account that was never initialized
C34_BorrowBeforeInitialize ==
    /\ program = "lending" /\ BeforeInitialize
    /\ lastOp.op = "Borrow" /\ lastOp.err = Ok
    /\ lendingInfo[lastOp.acct].borrowed_amount > 0

\* a Stake accepted on a pool account that was never initialized
C34_StakeBeforeInitialize ==
    /\ program = "staking" /\ BeforeInitialize
    /\ lastOp.op = "Stake" /\ lastOp.err = Ok
    /\ stakePool.total_staked = lastOp.pre_pool.total_staked + lastOp.amount

\* Initialize on a pool account that was never initialized
C34_InitializeSucceeds ==
    (BeforeInitialize /\ lastOp.op = "Initialize") => lastOp.err = Ok

(* Split settlement *)

\* both settlements of the drawn interval have been computed
SplitSettled == splitCheck.once.err # "none"

\* C35: for an interval [0, t2] and an intermediate time t1, with the principal and
\* the other positions unchanged, settling at t1 and again at t2 credits a total
\* staking reward, lending deposit interest and lending borrow interest that is at
\* most what one settlement at t2 credits.
C35_SplitNeverGains ==
    SplitSettled =>
        /\ splitCheck.twice.reward <= splitCheck.once.reward
        /\ splitCheck.twice.deposit <= splitCheck.once.deposit
        /\ splitCheck.twice.borrow <= splitCheck.once.borrow

\* an interval whose single settlement fails in the 64-bit product while its two
\* parts settle and credit interest
C35_SingleSettlementFails ==
    /\ SplitSettled /\ program = "lending"
    /\ splitCheck.once.err = "Overflow" /\ splitCheck.once.deposit = 0
    /\ splitCheck.twice.err = Ok /\ splitCheck.twice.deposit > 0

\* the same comparison where every settlement returned Ok: the split total is at most
\* the single credit and falls short of it by at most the floors taken
C35_SplitWithinRounding ==
    (SplitSettled /\ splitCheck.once.err = Ok) =>
        /\ splitCheck.twice.err = Ok
        /\ splitCheck.twice.reward <= splitCheck.once.reward
        /\ splitCheck.twice.deposit <= splitCheck.once.deposit
        /\ splitCheck.twice.borrow <= splitCheck.once.borrow
        /\ splitCheck.once.reward - splitCheck.twice.reward <= 2
        /\ splitCheck.once.deposit - splitCheck.twice.deposit <= 1
        /\ splitCheck.once.borrow - splitCheck.twice.borrow <= 1

\* a split that loses one unit of deposit interest, and one that loses staking reward
C35_RoundingLossWitness ==
    /\ SplitSettled /\ program = "lending"
    /\ splitCheck.once.err = Ok /\ splitCheck.twice.err = Ok
    /\ splitCheck.twice.deposit < splitCheck.once.deposit

C35_StakingLossWitness ==
    /\ SplitSettled /\ program = "staking"
    /\ splitCheck.once.err = Ok /\ splitCheck.twice.err = Ok
    /\ splitCheck.twice.reward < splitCheck.once.reward
    /\ splitCheck.twice.reward > 0

(* Reward payout *)

\* an accepted staking call on a position account
AcceptedOnPosition ==
    /\ program = "staking" /\ lastOp.err = Ok
    /\ lastOp.op \in {"Stake", "Unstake", "ClaimReward"}

\* rewards_earned of the call's position as update_rewards left it in the call
EarnedSettled == SyncAndSettle(lastOp.pre_pool, PositionRead, lastOp.at).info.rewards_earned

\* the step is an accepted ClaimReward on position a
ClaimStep(a) ==
    /\ calls' = calls + 1
    /\ lastOp'.op = "ClaimReward" /\ lastOp'.acct = a

\* what each accepted call does to rewards_earned and to the transfers
PayoutAccounting ==
    AcceptedOnPosition =>
        IF lastOp.op = "ClaimReward"
        THEN /\ stakeInfo[lastOp.acct].rewards_earned = 0
             /\ lastOp.net + lastOp.fee = EarnedSettled
             /\ stakeInfo[lastOp.acct].stake_amount = StakeBefore
             /\ stakePool.total_staked = lastOp.pre_pool.total_staked
        ELSE stakeInfo[lastOp.acct].rewards_earned = EarnedSettled

\* a ClaimReward that directly follows an accepted ClaimReward on the same position
\* at the same timestamp hands nothing to either transfer; the total handed out for a
\* position grows by net plus fee of its ClaimRewards and by nothing else
PayoutSteps ==
    /\ \A a \in Accounts :
          paidOut'[a] - paidOut[a]
              = IF ClaimStep(a) THEN lastOp'.net + lastOp'.fee ELSE 0
    /\ (/\ program = "staking" /\ lastOp.op = "ClaimReward" /\ lastOp.err = Ok
        /\ ClaimStep(lastOp.acct) /\ lastOp'.at = lastOp.at)
          => /\ lastOp'.net = 0 /\ lastOp'.fee = 0
             /\ stakeInfo' = stakeInfo

\* C36: after a successful ClaimReward the position's rewards_earned is 0; a second
\* ClaimReward at the same timestamp pays nothing and makes no fee transfer; the
\* total paid for a position (net plus fee) grows in each call by what the call's
\* settlement left in rewards_earned less what the call leaves there, so that it
\* equals the total ever added to rewards_earned minus the current rewards_earned;
\* ClaimReward never changes stake_amount or total_staked.
C36_NoDoublePayout == [](PayoutAccounting) /\ [][PayoutSteps]_vars

\* a second ClaimReward at the timestamp of one that paid, on a position with stake
C36_Witness ==
    /\ AcceptedOnPosition /\ lastOp.op = "ClaimReward" /\ initFirst
    /\ paidOut[lastOp.acct] > 0
    /\ StakeBefore > 0 /\ lastOp.pre_pool.total_staked > 0
    /\ lastOp.pre_pool.last_update_time = lastOp.at
    /\ lastOp.net = 0 /\ lastOp.fee = 0

\* a ClaimReward that pays a reward and a fee above zero
C36_PayingWitness ==
    /\ AcceptedOnPosition /\ lastOp.op = "ClaimReward"
    /\ lastOp.net > 0 /\ lastOp.fee > 0
    /\ paidOut[lastOp.acct] = lastOp.net + lastOp.fee

(* Unstake *)

\* the last call was an Unstake on an existing position
UnstakeCalled ==
    /\ program = "staking" /\ lastOp.op = "Unstake"
    /\ lastOp.pre_info[lastOp.acct] # NoData

\* the amount of the Unstake is above the position's stake_amount
OverBalance == lastOp.amount > lastOp.pre_info[lastOp.acct].stake_amount

\* C37: once unlocked, an Unstake of amount > stake_amount is rejected with
\* InsufficientStakeBalance and no state change; a successful Unstake decreases
\* stake_amount and total_staked by exactly amount, charges no fee and does not
\* reduce rewards_earned; a call that is both locked and over balance is rejected
\* with StakeLocked.
C37_UnstakeBalanceCheck ==
    UnstakeCalled =>
        LET before == lastOp.pre_info[lastOp.acct]
            after == stakeInfo[lastOp.acct]
        IN  /\ (~StakeIsLocked(before, lastOp.at) /\ OverBalance) =>
                  lastOp.err = "InsufficientStakeBalance" /\ StakingUnchanged
            /\ (StakeIsLocked(before, lastOp.at) /\ OverBalance) =>
                  lastOp.err = "StakeLocked" /\ StakingUnchanged
            /\ lastOp.err = Ok =>
                  /\ after.stake_amount = before.stake_amount - lastOp.amount
                  /\ stakePool.total_staked = lastOp.pre_pool.total_staked - lastOp.amount
                  /\ lastOp.net = lastOp.amount /\ lastOp.fee = 0
                  /\ after.rewards_earned >= before.rewards_earned

\* an unlocked Unstake of more than the position holds
C37_Witness ==
    /\ UnstakeCalled /\ OverBalance
    /\ ~StakeIsLocked(lastOp.pre_info[lastOp.acct], lastOp.at)
    /\ lastOp.pre_info[lastOp.acct].stake_amount > 0
    /\ lastOp.err = "InsufficientStakeBalance"

\* an Unstake that is locked and over balance
C37_LockedAndOverWitness ==
    /\ UnstakeCalled /\ OverBalance
    /\ StakeIsLocked(lastOp.pre_info[lastOp.acct], lastOp.at)
    /\ lastOp.err = "StakeLocked"

\* an accepted Unstake of a part of the stake that settles a reward above zero
C37_PartialWitness ==
    /\ UnstakeCalled /\ lastOp.err = Ok
    /\ stakeInfo[lastOp.acct].stake_amount > 0
    /\ stakeInfo[lastOp.acct].rewards_earned > lastOp.pre_info[lastOp.acct].rewards_earned

(* Airdrop cap *)

\* the last call was a ClaimAirdrop on an existing campaign
ClaimCalled ==
    /\ program = "airdrop" /\ lastOp.op = "ClaimAirdrop"
    /\ lastOp.pre_pool # NoData

\* the whitelist entry presented to the last call had claimed already
EntryHasClaimed ==
    /\ lastOp.pre_pool.whitelist_required
    /\ lastOp.pre_info[lastOp.acct] # NoData
    /\ lastOp.pre_info[lastOp.acct].wallet = lastOp.caller
    /\ lastOp.pre_info[lastOp.acct].has_claimed

\* claimed_count never exceeds max_recipients and ClaimAirdrop succeeds only on an
\* active campaign; a claim with an entry whose has_claimed is set is rejected
CapAndActive ==
    program = "airdrop" =>
        /\ campaign # NoData => campaign.claimed_count <= campaign.max_recipients
        /\ (ClaimCalled /\ lastOp.err = Ok) => lastOp.pre_pool.is_active
        /\ (ClaimCalled /\ lastOp.pre_pool.is_active /\ EntryHasClaimed
               /\ lastOp.pre_pool.claimed_count < lastOp.pre_pool.max_recipients) =>
              /\ lastOp.err = "AlreadyClaimed"
              /\ campaign = lastOp.pre_pool /\ whitelist = lastOp.pre_info

\* C38: for a campaign created with claimed_count = 0, in every reachable state
\* claimed_count <= max_recipients; ClaimAirdrop succeeds only while the campaign is
\* active; when whitelist_required is set a whitelist entry claims at most once: a
\* second claim fails with AlreadyClaimed and does not increase claimed_count.
C38_AirdropCap ==
    /\ CapAndActive
    /\ program = "airdrop" =>
          \A e \in WhitelistAccounts \X Accounts : claimsMade[e] <= 1

\* a wallet's second accepted claim with the same whitelist account, on a campaign
\* that was created once
C38_ClaimedTwice ==
    /\ ClaimCalled /\ lastOp.err = Ok /\ created = 1
    /\ lastOp.pre_pool.whitelist_required
    /\ claimsMade[<<lastOp.acct, lastOp.caller>>] = 2
    /\ campaign.claimed_count = 2

\* a second claim refused with AlreadyClaimed
C38_RefusedWitness ==
    /\ ClaimCalled /\ lastOp.err = "AlreadyClaimed"
    /\ claimsMade[<<lastOp.acct, lastOp.caller>>] = 1
    /\ campaign.claimed_count = 1 /\ campaign.max_recipients = 2

(* Launchpad hard cap *)

\* what a participant info account records as contributed, 0 for an empty account
ContributedBy(a) == IF participants[a] = NoData THEN 0 ELSE participants[a].amount_contributed

\* the last call was an accepted Participate
Participated == program = "launchpad" /\ lastOp.op = "Participate" /\ lastOp.err = Ok

\* the cap, the sum, the conditions of Participate and the claimed tokens
CapAndContributions ==
    /\ launchpad.total_raised <= launchpad.hard_cap
    /\ launchpad.total_raised = SumOver(Accounts, [a \in Accounts |-> ContributedBy(a)])
    /\ Participated =>
          /\ lastOp.pre_pool.is_active
          /\ lastOp.pre_pool.min_buy <= lastOp.amount
          /\ lastOp.amount <= lastOp.pre_pool.max_buy
    /\ \A a \in Accounts :
          participants[a] # NoData =>
             participants[a].tokens_claimed <= participants[a].tokens_owed

\* C39: for a launchpad created with total_raised = 0, in every reachable state
\* total_raised <= hard_cap and total_raised equals the sum of amount_contributed
\* over all participants; Participate succeeds only while is_active and only for
\* min_buy <= amount <= max_buy; a participant's tokens_claimed never exceeds
\* tokens_owed.
C39_LaunchpadHardCap ==
    (program = "launchpad" /\ launchpad # NoData) => CapAndContributions

\* a launchpad written again by CreateLaunchpad after a contribution was recorded
C39_RaisedBelowContributions ==
    /\ program = "launchpad" /\ launchpad # NoData
    /\ lastOp.op = "CreateLaunchpad" /\ lastOp.err = Ok /\ created = 2
    /\ launchpad.total_raised = 0
    /\ SumOver(Accounts, [a \in Accounts |-> ContributedBy(a)]) > 0

\* the same statement on a launchpad account that CreateLaunchpad wrote once
C39_CreatedOnce ==
    (program = "launchpad" /\ launchpad # NoData /\ created = 1) => CapAndContributions

\* a launchpad created once that has raised its hard cap from two participants
C39_CapReachedWitness ==
    /\ Participated /\ created = 1
    /\ launchpad.total_raised = launchpad.hard_cap
    /\ \A a \in Accounts : ContributedBy(a) > 0

\* a participant who has claimed all the tokens owed
C39_ClaimedWitness ==
    /\ program = "launchpad" /\ lastOp.op = "ClaimTokens" /\ lastOp.err = Ok
    /\ created = 1
    /\ participants[lastOp.acct].tokens_owed > 0
    /\ participants[lastOp.acct].tokens_claimed = participants[lastOp.acct].tokens_owed

====
